---- MODULE Spec2Model ----
(***************************************************************************)
(* Email verification engine of hamzaig/email-verification.                *)
(*                                                                         *)
(* Six components are modelled, with specifications over the same          *)
(* variables (the components a specification is not about stay idle):      *)
(*   SpecSmtp         the SMTP probe, performSmtpCheck                     *)
(*   SpecGov          the rate governor getNextIp, two concurrent callers  *)
(*   SpecGovSeq       the rate governor, one caller (sequential calls)     *)
(*   SpecBatch        the bulk worker, bulkVerificationQueue.process       *)
(*   SpecBatchCancel  the bulk worker with a cancellation                  *)
(*   SpecVerify       the pipeline, EnhancedEmailVerifier.verify and the   *)
(*                    basic EmailVerifier.verify, one call                 *)
(*   SpecVerifyRepeat the pipeline, two calls for the same address         *)
(*   SpecSpamTrap     checkSpamTrapIndicators                              *)
(*   SpecSuggest      suggestCorrection of both verifiers                  *)
(*   SpecEnrich       enrich of both verifiers                             *)
(*   SpecAdvanced     the end of AdvancedEmailVerifier.verify              *)
(*   SpecCsv          the boolean columns of the CSV download              *)
(*   SpecSmtpFair     the SMTP probe under its scheduling                  *)
(*   SpecGovTimed     the rate governor, one caller, on a clock            *)
(*   SpecSubmit       POST /bulk-verify, concurrent requests of one owner  *)
(*   SpecBatchRead    the status and download routes of a batch            *)
(*   SpecLifecycle    one POST /bulk-verify and the bulk worker, fair      *)
(***************************************************************************)
EXTENDS Integers, Sequences, FiniteSets, TLC

VARIABLES
  \* ---- SMTP probe (src/config/queue.js 880-1034)
  s_pc,            \* "idle" | "acquire" | "dialogue" | "returned"
  socket,          \* "none" | "open" | "destroyed" | "closed"
  timerArmed,      \* the 15 s setTimeout is pending
  resolved,        \* the closure's resolved flag
  responseBuffer,  \* the replies received so far, in order
  sent,            \* the commands written to the socket, in order
  pendingReplies,  \* banner and commands the server has not answered yet
  smtpCheck,       \* result.smtpCheck
  smtpErrors,      \* what the probe pushed on result.errors
  resolveCount,    \* how often resolve() was called
  \* ---- rate governor (src/utils/emailVerifier.js 475-523) and its Redis keys
  g_pc,            \* per caller: where its getNextIp call stands
  g_minuteCount,   \* per caller: the local minuteCount
  g_hourCount,     \* per caller: the local hourCount
  g_currentIndex,  \* per caller: the local currentIndex
  g_ret,           \* per caller: what its last call returned or threw
  r_minute,        \* smtp:{domain}:minute (0: no such key)
  r_hour,          \* smtp:{domain}:hour (0: no such key)
  r_minuteTtl,     \* the minute key has a TTL
  r_hourTtl,       \* the hour key has a TTL
  r_ipIndex,       \* smtp:ip_index (0: no such key)
  \* history of the governor, read by no action
  h_okMinute,      \* acquires counted since the minute key was last absent
  h_okHour,        \* acquires counted since the hour key was last absent
  h_before,        \* h_okMinute, h_okHour when caller 1's call began
  h_expired,       \* a key expired while caller 1's call was in flight
  h_redisFailed,   \* a Redis operation of getNextIp has failed
  clock,           \* the time, in the model's units
  r_minuteDeadline,\* when the TTL of the minute key runs out, -1 without TTL
  h_windowStart,   \* history: when the minute key was created, -1 without
                   \* key
  \* ---- bulk worker (src/config/queue.js 94-251) and the BatchJob record
  batchJob,        \* the durable BatchJob document
  emails,          \* job.data.emails: per email, the verdict verify gives it
  notifyUser,      \* job.data.notifyUser
  b_pc,            \* where the processor stands
  b_idx,           \* emails the for loop has finished
  processed,       \* the processor's local counters
  validCount,
  invalidCount,
  attemptsMade,    \* Bull's count of failed attempts of the queue item
  b_logRows,       \* VerificationLog rows bound to the batchId
  b_faults,        \* database failures so far
  b_notified,      \* completion mails sent
  h_jobFault,      \* history: a database call outside the per-email try failed
  b_cancelledAt,   \* -1, or b_idx when the batch was cancelled
  \* ---- pipeline (src/config/queue.js 554-736, src/utils/emailVerifier.js
  \*      30-102)
  verifier,        \* "none" | "enhanced" | "basic": whose verify was called
  v_pc,            \* the await the call stands at
  email,           \* the argument, as email.split("@") sees it
  options,         \* the destructured options
  result,          \* the result object under construction
  timeoutPromise,  \* "none" | "pending" | "rejected"
  raceAttached,    \* Promise.race has subscribed to timeoutPromise
  v_outcome,       \* "none" | "returned" | "rejected": how the call ended
  v_ret,           \* the object the call returned
  \* history of the pipeline, read by no action
  h_timedOut,      \* the call ended because timeoutPromise won the race
  h_lateSteps,     \* steps the call started after the timer had fired
  h_unhandled,     \* timeoutPromise rejected with no handler attached
  callerProfile,   \* "any" | "repeat": which calls the caller makes
  callsLeft,       \* verify calls the caller has still to make
  verifyCache,     \* the verify:{email} keys of the cache store
  mxCache,         \* the mx:{domain} keys of the cache store
  mxPending,       \* a checkMxRecords whose verify has already returned
  h_mxRecords,     \* the MX records the last MX check obtained
  h_mxDomain,      \* the host the last probe connected to
  h_work,          \* what the call did: "dns", "governor" (any call to the
                   \* rate governor), "acquire" (getNextIp), "smtp",
                   \* "cacheWrite"
  h_storeOps,      \* the cache store calls of the latest step
  h_dnsLog,        \* the MX queries of the latest step, in order
  h_prevRet,       \* what the caller's previous call returned, if that
                   \* call left an entry in the cache
  \* ---- the functions that derive one signal from given inputs
  f_pc,            \* "idle" | "called" | "returned"
  f_input,         \* the arguments of the call
  f_output,        \* what the call left in result, or returned
  \* ---- POST /bulk-verify (src/unnamed/part_002 361-481)
  sub_pc,          \* per request: the await the handler stands at
  sub_size,        \* per request: emails.length
  sub_usage,       \* per request: the handler's local usage document's count,
                   \* -1 for null
  sub_resp,        \* per request: the status code sent, 0 before
  sub_record,      \* per request: the BatchJob record is saved
  sub_item,        \* per request: the queue item is added
  ownerRole,       \* user.role of the owner of the requests
  usageCount,      \* the count of the owner's Usage document of the month,
                   \* -1 when there is none
  h_recorded       \* history: the sizes of the submissions whose usage
                   \* update succeeded, added up

smtpVars == <<s_pc, socket, timerArmed, resolved, responseBuffer, sent,
              pendingReplies, smtpCheck, smtpErrors, resolveCount>>

govVars == <<g_pc, g_minuteCount, g_hourCount, g_currentIndex, g_ret,
             r_minute, r_hour, r_minuteTtl, r_hourTtl, r_ipIndex,
             h_okMinute, h_okHour, h_before, h_expired, h_redisFailed,
             clock, r_minuteDeadline, h_windowStart>>

batchVars == <<batchJob, emails, notifyUser, b_pc, b_idx, processed,
               validCount, invalidCount, attemptsMade, b_logRows, b_faults,
               b_notified, h_jobFault, b_cancelledAt>>

verVars == <<verifier, v_pc, email, options, result, timeoutPromise,
             raceAttached, v_outcome, v_ret, h_timedOut, h_lateSteps,
             h_unhandled, callerProfile, callsLeft, verifyCache, mxCache,
             mxPending, h_mxRecords, h_mxDomain, h_work, h_storeOps,
             h_dnsLog, h_prevRet>>

fnVars == <<f_pc, f_input, f_output>>

subVars == <<sub_pc, sub_size, sub_usage, sub_resp, sub_record, sub_item,
             ownerRole, usageCount, h_recorded>>

vars == <<smtpVars, govVars, batchVars, verVars, fnVars, subVars>>

\* What an action of one component leaves alone: the other components.
SmtpFrame == UNCHANGED <<govVars, batchVars, verVars, fnVars, subVars>>
GovFrame == UNCHANGED <<smtpVars, batchVars, verVars, fnVars, subVars>>
\* The processor never touches the cancellation signal either.
BatchFrame ==
  UNCHANGED <<smtpVars, govVars, verVars, fnVars, subVars, b_cancelledAt>>
VerFrame == UNCHANGED <<smtpVars, govVars, batchVars, fnVars, subVars>>
FnFrame == UNCHANGED <<smtpVars, govVars, batchVars, verVars, subVars>>
\* A request handler touches the batch only by adding its queue item.
SubFrame == UNCHANGED <<smtpVars, govVars, verVars, fnVars, ownerRole>>

(***************************************************************************)
(* SMTP probe                                                              *)
(***************************************************************************)

\* The most replies one probe receives in the model.
MaxReplies == 4

\* responseBuffer.length > 1000
MaxBufferLen == 1000

\* What a chunk of server data can contain, as far as the handler looks at
\* it: the substrings it searches for, and the chunk's length.
ServerReplies ==
  { [marks |-> {"220"}, size |-> 30],
    [marks |-> {"250"}, size |-> 12],
    [marks |-> {"250", "MAIL FROM"}, size |-> 30],
    [marks |-> {"250", "RCPT TO"}, size |-> 30],
    [marks |-> {"550"}, size |-> 30],
    [marks |-> {"553"}, size |-> 30],
    [marks |-> {}, size |-> 20],
    [marks |-> {}, size |-> 1001] }

\* What getNextIp gives performSmtpCheck: an IP, or a RATE_LIMIT error.
AcquireOutcomes == {"ip", "RATE_LIMIT_MINUTE", "RATE_LIMIT_HOUR"}

\* error.message.startsWith("RATE_LIMIT")
StartsWithRateLimit(e) == e \in {"RATE_LIMIT_MINUTE", "RATE_LIMIT_HOUR"}

RECURSIVE BufferLength(_)
BufferLength(buf) ==
  IF buf = <<>> THEN 0 ELSE Head(buf).size + BufferLength(Tail(buf))

\* responseBuffer.includes(s)
Includes(buf, s) == \E i \in 1..Len(buf) : s \in buf[i].marks

\* The if / else-if chain of the data handler, on the buffer after the
\* chunk was appended.
DataBranch(buf) ==
  IF Includes(buf, "220") THEN "helo"
  ELSE IF Includes(buf, "250") /\ ~Includes(buf, "MAIL FROM") THEN "mail"
  ELSE IF Includes(buf, "250") /\ Includes(buf, "MAIL FROM") THEN "rcpt"
  ELSE IF Includes(buf, "250") /\ Includes(buf, "RCPT TO") THEN "accept"
  ELSE IF Includes(buf, "550") \/ Includes(buf, "553") THEN "reject"
  ELSE IF BufferLength(buf) > MaxBufferLen THEN "unexpected"
  ELSE "none"

SmtpInit ==
  /\ s_pc = "idle"
  /\ socket = "none"
  /\ timerArmed = FALSE
  /\ resolved = FALSE
  /\ responseBuffer = <<>>
  /\ sent = <<>>
  /\ pendingReplies = 0
  /\ smtpCheck = FALSE
  /\ smtpErrors = <<>>
  /\ resolveCount = 0

\* performSmtpCheck is called: it awaits getNextIp(domain).
SmtpCall ==
  /\ s_pc = "idle"
  /\ s_pc' = "acquire"
  /\ UNCHANGED <<socket, timerArmed, resolved, responseBuffer, sent,
                 pendingReplies, smtpCheck, smtpErrors, resolveCount>>
  /\ SmtpFrame

\* getNextIp returned an IP: the executor creates the socket, installs the
\* handlers, connects and arms the 15 s timer.
SmtpConnect ==
  /\ s_pc = "acquire"
  /\ s_pc' = "dialogue"
  /\ socket' = "open"
  /\ timerArmed' = TRUE
  /\ pendingReplies' = 1
  /\ UNCHANGED <<resolved, responseBuffer, sent, smtpCheck, smtpErrors,
                 resolveCount>>
  /\ SmtpFrame

\* The executor's own try / catch: socket.connect throws.
SmtpConnectThrows ==
  /\ s_pc = "acquire"
  /\ s_pc' = "returned"
  /\ resolved' = TRUE
  /\ resolveCount' = resolveCount + 1
  /\ smtpCheck' = FALSE
  /\ smtpErrors' = Append(smtpErrors, "SMTP check failed: exception")
  /\ UNCHANGED <<socket, timerArmed, responseBuffer, sent, pendingReplies>>
  /\ SmtpFrame

\* getNextIp threw: the outer catch of performSmtpCheck.
SmtpRateLimited ==
  /\ s_pc = "acquire"
  /\ \E e \in AcquireOutcomes \ {"ip"} :
       /\ smtpErrors' = Append(smtpErrors, "SMTP check error: " \o e)
       /\ smtpCheck' = StartsWithRateLimit(e)
  /\ s_pc' = "returned"
  /\ UNCHANGED <<socket, timerArmed, resolved, responseBuffer, sent,
                 pendingReplies, resolveCount>>
  /\ SmtpFrame

\* socket.on("data"): one chunk from the server.
OnData ==
  /\ socket = "open"
  /\ ~resolved
  /\ pendingReplies > 0
  /\ Len(responseBuffer) < MaxReplies
  /\ \E r \in ServerReplies :
       LET buf == Append(responseBuffer, r)
           br  == DataBranch(buf)
       IN /\ responseBuffer' = buf
          /\ sent' = CASE br = "helo" -> Append(sent, "HELO")
                       [] br = "mail" -> Append(sent, "MAIL FROM")
                       [] br = "rcpt" -> Append(sent, "RCPT TO")
                       [] OTHER -> sent
          /\ pendingReplies' = IF br \in {"helo", "mail", "rcpt"}
                               THEN pendingReplies
                               ELSE pendingReplies - 1
          /\ IF br \in {"accept", "reject", "unexpected"}
             THEN /\ resolved' = TRUE
                  /\ resolveCount' = resolveCount + 1
                  /\ socket' = "destroyed"
                  /\ s_pc' = "returned"
                  /\ smtpCheck' = (br = "accept")
                  /\ smtpErrors' =
                       CASE br = "reject" ->
                              Append(smtpErrors, "SMTP check failed: address rejected")
                         [] br = "unexpected" ->
                              Append(smtpErrors, "SMTP check failed: unexpected response")
                         [] OTHER -> smtpErrors
             ELSE UNCHANGED <<resolved, resolveCount, socket, s_pc, smtpCheck,
                              smtpErrors>>
  /\ UNCHANGED timerArmed
  /\ SmtpFrame

\* socket.on("timeout"): 10 s without traffic.
OnTimeout ==
  /\ socket = "open"
  /\ ~resolved
  /\ resolved' = TRUE
  /\ resolveCount' = resolveCount + 1
  /\ socket' = "destroyed"
  /\ smtpCheck' = FALSE
  /\ smtpErrors' = Append(smtpErrors, "SMTP connection timed out")
  /\ s_pc' = "returned"
  /\ UNCHANGED <<timerArmed, responseBuffer, sent, pendingReplies>>
  /\ SmtpFrame

\* socket.on("error"): the socket closes itself afterwards.
OnError ==
  /\ socket = "open"
  /\ ~resolved
  /\ resolved' = TRUE
  /\ resolveCount' = resolveCount + 1
  /\ socket' = "destroyed"
  /\ smtpCheck' = FALSE
  /\ smtpErrors' = Append(smtpErrors, "SMTP connection error")
  /\ s_pc' = "returned"
  /\ UNCHANGED <<timerArmed, responseBuffer, sent, pendingReplies>>
  /\ SmtpFrame

\* A close handler that does not look at the resolved flag.
OnCloseUnguarded ==
  /\ socket \in {"open", "destroyed"}
  /\ socket' = "closed"
  /\ resolved' = TRUE
  /\ resolveCount' = resolveCount + 1
  /\ smtpCheck' = FALSE
  /\ smtpErrors' = Append(smtpErrors, "SMTP connection closed unexpectedly")
  /\ s_pc' = "returned"
  /\ UNCHANGED <<timerArmed, responseBuffer, sent, pendingReplies>>
  /\ SmtpFrame

\* socket.on("close"): the server hung up, or the close that follows a
\* destroy or an error.
OnClose ==
  /\ socket \in {"open", "destroyed"}
  /\ socket' = "closed"
  /\ IF ~resolved
     THEN /\ resolved' = TRUE
          /\ resolveCount' = resolveCount + 1
          /\ smtpCheck' = FALSE
          /\ smtpErrors' = Append(smtpErrors, "SMTP connection closed unexpectedly")
          /\ s_pc' = "returned"
     ELSE UNCHANGED <<resolved, resolveCount, smtpCheck, smtpErrors, s_pc>>
  /\ UNCHANGED <<timerArmed, responseBuffer, sent, pendingReplies>>
  /\ SmtpFrame

\* The 15 s setTimeout fires.
OnGlobalTimeout ==
  /\ timerArmed
  /\ timerArmed' = FALSE
  /\ IF ~resolved
     THEN /\ resolved' = TRUE
          /\ resolveCount' = resolveCount + 1
          /\ socket' = IF socket = "closed" THEN "closed" ELSE "destroyed"
          /\ smtpCheck' = FALSE
          /\ smtpErrors' = Append(smtpErrors, "SMTP check timed out")
          /\ s_pc' = "returned"
     ELSE UNCHANGED <<resolved, resolveCount, socket, smtpCheck, smtpErrors, s_pc>>
  /\ UNCHANGED <<responseBuffer, sent, pendingReplies>>
  /\ SmtpFrame

SmtpNext ==
  \/ SmtpCall
  \/ SmtpConnect
  \/ SmtpConnectThrows
  \/ SmtpRateLimited
  \/ OnData
  \/ OnTimeout
  \/ OnError
  \/ OnClose
  \/ OnGlobalTimeout


(***************************************************************************)
(* Rate governor: getNextIp                                                *)
(***************************************************************************)

\* Concurrent callers of getNextIp in the model.
MaxCallers == 2

\* The limits of the domain's row of domainRateLimits, scaled down.
MaxPerMinute == 2
MaxPerHour == 3

Callers == 1..MaxCallers

\* The 60 of redisClient.expire(minuteKey, 60), in the model's units of time.
MinuteTtl == 2

\* How long the model's clock runs.
MaxClock == 4

\* process.env.IP_POOL.split(",")
ipPool == <<"10.0.0.1", "10.0.0.2">>

IpAddresses == {ipPool[i] : i \in 1..Len(ipPool)}

\* domainRateLimits[domainKey] || domainRateLimits["default"]
limitConfig == [maxPerMinute |-> MaxPerMinute, maxPerHour |-> MaxPerHour]

\* RateLimitCheck with > for >=: one call too many passes.
RateLimitCheckOffByOne(minuteCount, hourCount) ==
  IF minuteCount > MaxPerMinute THEN "RATE_LIMIT_MINUTE"
  ELSE IF hourCount > MaxPerHour THEN "RATE_LIMIT_HOUR"
  ELSE "pass"

\* The two checks of getNextIp on the counters it read: the error it throws,
\* or "pass".
RateLimitCheck(minuteCount, hourCount) ==
  IF minuteCount >= limitConfig.maxPerMinute THEN "RATE_LIMIT_MINUTE"
  ELSE IF hourCount >= limitConfig.maxPerHour THEN "RATE_LIMIT_HOUR"
  ELSE "pass"

\* (parseInt(currentIndex) + 1) % ipPool.length
NextIndex(currentIndex) == (currentIndex + 1) % Len(ipPool)

GovInit ==
  /\ g_pc = [p \in Callers |-> "idle"]
  /\ g_minuteCount = [p \in Callers |-> 0]
  /\ g_hourCount = [p \in Callers |-> 0]
  /\ g_currentIndex = [p \in Callers |-> 0]
  /\ g_ret = [p \in Callers |-> "none"]
  /\ r_minute = 0
  /\ r_hour = 0
  /\ r_minuteTtl = FALSE
  /\ r_hourTtl = FALSE
  /\ r_ipIndex = 0
  /\ h_okMinute = 0
  /\ h_okHour = 0
  /\ h_before = [m |-> 0, h |-> 0]
  /\ h_expired = FALSE
  /\ h_redisFailed = FALSE
  /\ clock = 0
  /\ r_minuteDeadline = -1
  /\ h_windowStart = -1

InFlight(p) == g_pc[p] \notin {"idle", "off"}

\* getNextIp(domain) is called.
GovCall(p) ==
  /\ g_pc[p] = "idle"
  /\ g_pc' = [g_pc EXCEPT ![p] = "getMinute"]
  /\ g_ret' = [g_ret EXCEPT ![p] = "none"]
  /\ h_before' = IF p = 1 THEN [m |-> h_okMinute, h |-> h_okHour] ELSE h_before
  /\ h_expired' = IF p = 1 THEN FALSE ELSE h_expired
  /\ UNCHANGED <<g_minuteCount, g_hourCount, g_currentIndex, r_minute, r_hour,
                 r_minuteTtl, r_hourTtl, r_ipIndex, h_okMinute, h_okHour,
                 h_redisFailed>>
  /\ UNCHANGED <<clock, r_minuteDeadline, h_windowStart>>
  /\ GovFrame

\* The call is over: its locals are gone.
GovEnd(p, ret) ==
  /\ g_pc' = [g_pc EXCEPT ![p] = "idle"]
  /\ g_ret' = [g_ret EXCEPT ![p] = ret]
  /\ g_minuteCount' = [g_minuteCount EXCEPT ![p] = 0]
  /\ g_hourCount' = [g_hourCount EXCEPT ![p] = 0]
  /\ g_currentIndex' = [g_currentIndex EXCEPT ![p] = 0]

\* getNextIp counting the call before it checks the limit (INCR, then
\* compare): a refused call has raised the counter.
GetMinuteCounting(p) ==
  /\ g_pc[p] = "getMinute"
  /\ r_minute' = r_minute + 1
  /\ g_minuteCount' = [g_minuteCount EXCEPT ![p] = r_minute]
  /\ g_pc' = [g_pc EXCEPT ![p] = "getHour"]
  /\ UNCHANGED <<g_hourCount, g_currentIndex, g_ret, r_hour,
                 r_minuteTtl, r_hourTtl, r_ipIndex, h_okMinute, h_okHour,
                 h_before, h_expired, h_redisFailed>>
  /\ UNCHANGED <<clock, r_minuteDeadline, h_windowStart>>
  /\ GovFrame

\* minuteCount = (await redisClient.get(minuteKey)) || 0
GetMinute(p) ==
  /\ g_pc[p] = "getMinute"
  /\ g_minuteCount' = [g_minuteCount EXCEPT ![p] = r_minute]
  /\ g_pc' = [g_pc EXCEPT ![p] = "getHour"]
  /\ UNCHANGED <<g_hourCount, g_currentIndex, g_ret, r_minute, r_hour,
                 r_minuteTtl, r_hourTtl, r_ipIndex, h_okMinute, h_okHour,
                 h_before, h_expired, h_redisFailed>>
  /\ UNCHANGED <<clock, r_minuteDeadline, h_windowStart>>
  /\ GovFrame

\* hourCount = (await redisClient.get(hourKey)) || 0, then the two checks.
GetHour(p) ==
  /\ g_pc[p] = "getHour"
  /\ LET chk == RateLimitCheck(g_minuteCount[p], r_hour)
     IN IF chk = "pass"
        THEN /\ g_hourCount' = [g_hourCount EXCEPT ![p] = r_hour]
             /\ g_pc' = [g_pc EXCEPT ![p] = "incrMinute"]
             /\ UNCHANGED <<g_minuteCount, g_currentIndex, g_ret>>
        ELSE GovEnd(p, chk)
  /\ UNCHANGED <<r_minute, r_hour, r_minuteTtl, r_hourTtl, r_ipIndex,
                 h_okMinute, h_okHour, h_before, h_expired, h_redisFailed>>
  /\ UNCHANGED <<clock, r_minuteDeadline, h_windowStart>>
  /\ GovFrame

\* await redisClient.incr(minuteKey)
IncrMinute(p) ==
  /\ g_pc[p] = "incrMinute"
  /\ r_minute' = r_minute + 1
  /\ h_okMinute' = h_okMinute + 1
  /\ g_pc' = [g_pc EXCEPT ![p] = "incrHour"]
  /\ UNCHANGED <<g_minuteCount, g_hourCount, g_currentIndex, g_ret, r_hour,
                 r_minuteTtl, r_hourTtl, r_ipIndex, h_okHour, h_before,
                 h_expired, h_redisFailed>>
  /\ h_windowStart' = IF r_minute = 0 THEN clock ELSE h_windowStart
  /\ UNCHANGED <<clock, r_minuteDeadline>>
  /\ GovFrame

\* await redisClient.incr(hourKey)
IncrHour(p) ==
  /\ g_pc[p] = "incrHour"
  /\ r_hour' = r_hour + 1
  /\ h_okHour' = h_okHour + 1
  /\ g_pc' = [g_pc EXCEPT ![p] = "expireMinute"]
  /\ UNCHANGED <<g_minuteCount, g_hourCount, g_currentIndex, g_ret, r_minute,
                 r_minuteTtl, r_hourTtl, r_ipIndex, h_okMinute, h_before,
                 h_expired, h_redisFailed>>
  /\ UNCHANGED <<clock, r_minuteDeadline, h_windowStart>>
  /\ GovFrame

\* await redisClient.expire(minuteKey, 60): no effect on a missing key.
ExpireMinute(p) ==
  /\ g_pc[p] = "expireMinute"
  /\ r_minuteTtl' = (r_minute > 0)
  /\ g_pc' = [g_pc EXCEPT ![p] = "expireHour"]
  /\ UNCHANGED <<g_minuteCount, g_hourCount, g_currentIndex, g_ret, r_minute,
                 r_hour, r_hourTtl, r_ipIndex, h_okMinute, h_okHour, h_before,
                 h_expired, h_redisFailed>>
  /\ r_minuteDeadline' = IF r_minute > 0 THEN clock + MinuteTtl
                       ELSE r_minuteDeadline
  /\ UNCHANGED <<clock, h_windowStart>>
  /\ GovFrame

\* await redisClient.expire(hourKey, 3600)
ExpireHour(p) ==
  /\ g_pc[p] = "expireHour"
  /\ r_hourTtl' = (r_hour > 0)
  /\ g_pc' = [g_pc EXCEPT ![p] = "getIndex"]
  /\ UNCHANGED <<g_minuteCount, g_hourCount, g_currentIndex, g_ret, r_minute,
                 r_hour, r_minuteTtl, r_ipIndex, h_okMinute, h_okHour, h_before,
                 h_expired, h_redisFailed>>
  /\ UNCHANGED <<clock, r_minuteDeadline, h_windowStart>>
  /\ GovFrame

\* currentIndex = (await redisClient.get("smtp:ip_index")) || 0
GetIndex(p) ==
  /\ g_pc[p] = "getIndex"
  /\ g_currentIndex' = [g_currentIndex EXCEPT ![p] = r_ipIndex]
  /\ g_pc' = [g_pc EXCEPT ![p] = "setIndex"]
  /\ UNCHANGED <<g_minuteCount, g_hourCount, g_ret, r_minute, r_hour,
                 r_minuteTtl, r_hourTtl, r_ipIndex, h_okMinute, h_okHour,
                 h_before, h_expired, h_redisFailed>>
  /\ UNCHANGED <<clock, r_minuteDeadline, h_windowStart>>
  /\ GovFrame

\* await redisClient.set("smtp:ip_index", nextIndex); return ipPool[currentIndex]
SetIndex(p) ==
  /\ g_pc[p] = "setIndex"
  /\ r_ipIndex' = NextIndex(g_currentIndex[p])
  /\ GovEnd(p, ipPool[g_currentIndex[p] + 1])
  /\ UNCHANGED <<r_minute, r_hour, r_minuteTtl, r_hourTtl, h_okMinute,
                 h_okHour, h_before, h_expired, h_redisFailed>>
  /\ UNCHANGED <<clock, r_minuteDeadline, h_windowStart>>
  /\ GovFrame

\* A Redis operation of the call rejects: the catch returns ipPool[0].
GovRedisFails(p) ==
  /\ InFlight(p)
  /\ GovEnd(p, ipPool[1])
  /\ h_redisFailed' = TRUE
  /\ UNCHANGED <<r_minute, r_hour, r_minuteTtl, r_hourTtl, r_ipIndex,
                 h_okMinute, h_okHour, h_before, h_expired>>
  /\ UNCHANGED <<clock, r_minuteDeadline, h_windowStart>>
  /\ GovFrame

\* A second passes.  A call of getNextIp takes no time at this scale, and
\* Redis drops a key the moment its TTL has run out.
Tick ==
  /\ clock < MaxClock
  /\ \A p \in Callers : ~InFlight(p)
  /\ ~(r_minute > 0 /\ r_minuteDeadline # -1 /\ clock >= r_minuteDeadline)
  /\ clock' = clock + 1
  /\ UNCHANGED <<g_pc, g_minuteCount, g_hourCount, g_currentIndex, g_ret,
                 r_minute, r_hour, r_minuteTtl, r_hourTtl, r_ipIndex,
                 h_okMinute, h_okHour, h_before, h_expired, h_redisFailed,
                 r_minuteDeadline, h_windowStart>>
  /\ GovFrame

\* Redis drops the minute key when its TTL runs out.
MinuteKeyExpires ==
  /\ r_minute > 0
  /\ r_minuteTtl
  /\ r_minute' = 0
  /\ r_minuteTtl' = FALSE
  /\ h_okMinute' = 0
  /\ h_expired' = (h_expired \/ InFlight(1))
  /\ UNCHANGED <<g_pc, g_minuteCount, g_hourCount, g_currentIndex, g_ret,
                 r_hour, r_hourTtl, r_ipIndex, h_okHour, h_before,
                 h_redisFailed>>
  /\ r_minuteDeadline' = -1
  /\ h_windowStart' = -1
  /\ UNCHANGED clock
  /\ GovFrame

\* Redis drops the hour key when its TTL runs out.
HourKeyExpires ==
  /\ r_hour > 0
  /\ r_hourTtl
  /\ r_hour' = 0
  /\ r_hourTtl' = FALSE
  /\ h_okHour' = 0
  /\ h_expired' = (h_expired \/ InFlight(1))
  /\ UNCHANGED <<g_pc, g_minuteCount, g_hourCount, g_currentIndex, g_ret,
                 r_minute, r_minuteTtl, r_ipIndex, h_okMinute, h_before,
                 h_redisFailed>>
  /\ UNCHANGED <<clock, r_minuteDeadline, h_windowStart>>
  /\ GovFrame

\* The minute key's TTL has run out on the model's clock.
MinuteKeyExpiresOnTime ==
  /\ r_minuteDeadline # -1
  /\ clock >= r_minuteDeadline
  /\ MinuteKeyExpires

\* The governor with one caller, on a clock.
GovTimedNext ==
  \/ \E p \in Callers :
       \/ GovCall(p)
       \/ GetMinute(p)
       \/ GetHour(p)
       \/ IncrMinute(p)
       \/ IncrHour(p)
       \/ ExpireMinute(p)
       \/ ExpireHour(p)
       \/ GetIndex(p)
       \/ SetIndex(p)
       \/ GovRedisFails(p)
  \/ MinuteKeyExpiresOnTime
  \/ HourKeyExpires
  \/ Tick

GovNext ==
  \/ \E p \in Callers :
       \/ GovCall(p)
       \/ GetMinute(p)
       \/ GetHour(p)
       \/ IncrMinute(p)
       \/ IncrHour(p)
       \/ ExpireMinute(p)
       \/ ExpireHour(p)
       \/ GetIndex(p)
       \/ SetIndex(p)
       \/ GovRedisFails(p)
  \/ MinuteKeyExpires
  \/ HourKeyExpires

(***************************************************************************)
(* Bulk worker: bulkVerificationQueue.process                              *)
(***************************************************************************)

\* The longest batch whose verdicts are enumerated freely.
MaxEmails == 3

\* Database operations that fail in one run of the model.
MaxFaults == 2

\* if (processed % 50 === 0)
FlushEvery == 50

\* attempts: 3 of bulkVerificationQueue.add
MaxAttempts == 3

Verdicts == {"valid", "invalid"}

\* The batches of the model: every short batch, and one long enough for the
\* periodic flush.
Batches ==
  UNION {[1..n -> Verdicts] : n \in 1..MaxEmails}
    \cup {[i \in 1..FlushEvery |-> "valid"]}

\* new BatchJob({... totalEmails: emails.length, status: "queued"}) as saved by
\* POST /bulk-verify before the queue item is added.
NewBatchJob(list) ==
  [status |-> "queued", totalEmails |-> Len(list), processedEmails |-> 0,
   validEmails |-> 0, invalidEmails |-> 0, startedAt |-> FALSE,
   completedAt |-> FALSE, error |-> "none"]

BatchInit ==
  /\ emails \in Batches
  /\ notifyUser \in BOOLEAN
  /\ batchJob = NewBatchJob(emails)
  /\ b_pc = "waiting"
  /\ b_idx = 0
  /\ processed = 0
  /\ validCount = 0
  /\ invalidCount = 0
  /\ attemptsMade = 0
  /\ b_logRows = 0
  /\ b_faults = 0
  /\ b_notified = 0
  /\ h_jobFault = FALSE
  /\ b_cancelledAt = -1

\* The request that will submit the batch has not added the queue item yet;
\* batchJob is the record it is about to save.
BatchUnsubmitted ==
  /\ emails \in Batches
  /\ notifyUser = TRUE
  /\ batchJob = NewBatchJob(emails)
  /\ b_pc = "unsubmitted"
  /\ b_idx = 0
  /\ processed = 0
  /\ validCount = 0
  /\ invalidCount = 0
  /\ attemptsMade = 0
  /\ b_logRows = 0
  /\ b_faults = 0
  /\ b_notified = 0
  /\ h_jobFault = FALSE
  /\ b_cancelledAt = -1

\* The component is not part of the specification being checked.
BatchIdle ==
  /\ emails = <<"valid">>
  /\ notifyUser = FALSE
  /\ batchJob = NewBatchJob(emails)
  /\ b_pc = "off"
  /\ b_idx = 0
  /\ processed = 0
  /\ validCount = 0
  /\ invalidCount = 0
  /\ attemptsMade = 0
  /\ b_logRows = 0
  /\ b_faults = 0
  /\ b_notified = 0
  /\ h_jobFault = FALSE
  /\ b_cancelledAt = -1

CanFail == b_faults < MaxFaults

\* What the three counter fields of an update carry.
Counters ==
  [processedEmails |-> processed, validEmails |-> validCount,
   invalidEmails |-> invalidCount]

\* BatchJob.findOneAndUpdate({batchId}, update): the fields of update replace
\* the record's.
FindOneAndUpdate(doc, update) ==
  [f \in DOMAIN doc |-> IF f \in DOMAIN update THEN update[f] ELSE doc[f]]

\* The for loop moves on: the next email, or the code after the loop.
AfterEmail ==
  /\ b_idx' = b_idx + 1
  /\ b_pc' = IF b_idx + 1 = Len(emails) THEN "complete" ELSE "verify"

\* Bull hands the queue item to the processor: a first attempt, or a retry.
\* The processor's locals start afresh.
BatchStart ==
  /\ b_pc = "waiting"
  /\ b_pc' = "start"
  /\ b_idx' = 0
  /\ processed' = 0
  /\ validCount' = 0
  /\ invalidCount' = 0
  /\ UNCHANGED <<batchJob, emails, notifyUser, attemptsMade, b_logRows,
                 b_faults, b_notified>>
  /\ UNCHANGED h_jobFault
  /\ BatchFrame

\* await BatchJob.findOneAndUpdate({batchId}, {status: "processing", ...})
SetProcessing ==
  /\ b_pc = "start"
  /\ \/ /\ batchJob' = FindOneAndUpdate(batchJob,
                         [status |-> "processing", startedAt |-> TRUE])
        /\ b_pc' = "verify"
        /\ UNCHANGED <<b_faults, h_jobFault>>
     \/ /\ CanFail
        /\ b_faults' = b_faults + 1
        /\ h_jobFault' = TRUE
        /\ b_pc' = "fail"
        /\ UNCHANGED batchJob
  /\ UNCHANGED <<emails, notifyUser, b_idx, processed, validCount,
                 invalidCount, attemptsMade, b_logRows, b_notified>>
  /\ BatchFrame

\* verify(email) returned: results.push, the valid / invalid count,
\* processed++, job.progress; then VerificationLog.create is awaited.
VerifyEmail ==
  /\ b_pc = "verify"
  /\ validCount' = validCount + (IF emails[b_idx + 1] = "valid" THEN 1 ELSE 0)
  /\ invalidCount' = invalidCount + (IF emails[b_idx + 1] = "valid" THEN 0 ELSE 1)
  /\ processed' = processed + 1
  /\ b_pc' = "log"
  /\ UNCHANGED <<batchJob, emails, notifyUser, b_idx, attemptsMade, b_logRows,
                 b_faults, b_notified>>
  /\ UNCHANGED h_jobFault
  /\ BatchFrame

\* The inner catch: "still count as processed but as invalid", then the
\* failure row is awaited.
InnerCatch ==
  /\ processed' = processed + 1
  /\ invalidCount' = invalidCount + 1
  /\ b_pc' = "failLog"

\* await VerificationLog.create({... result ...})
WriteLog ==
  /\ b_pc = "log"
  /\ \/ /\ b_logRows' = b_logRows + 1
        /\ IF processed % FlushEvery = 0
           THEN b_pc' = "flush" /\ UNCHANGED b_idx
           ELSE AfterEmail
        /\ UNCHANGED <<processed, invalidCount, b_faults>>
     \/ /\ CanFail
        /\ b_faults' = b_faults + 1
        /\ InnerCatch
        /\ UNCHANGED <<b_logRows, b_idx>>
  /\ UNCHANGED <<batchJob, emails, notifyUser, validCount, attemptsMade,
                 b_notified>>
  /\ UNCHANGED h_jobFault
  /\ BatchFrame

\* The periodic await BatchJob.findOneAndUpdate of the three counters.
Flush ==
  /\ b_pc = "flush"
  /\ \/ /\ batchJob' = FindOneAndUpdate(batchJob, Counters)
        /\ AfterEmail
        /\ UNCHANGED <<processed, invalidCount, b_faults>>
     \/ /\ CanFail
        /\ b_faults' = b_faults + 1
        /\ InnerCatch
        /\ UNCHANGED <<batchJob, b_idx>>
  /\ UNCHANGED <<emails, notifyUser, validCount, attemptsMade, b_logRows,
                 b_notified>>
  /\ UNCHANGED h_jobFault
  /\ BatchFrame

\* await VerificationLog.create of the failure row, inside the inner catch:
\* a rejection here leaves the loop for the outer catch.
WriteFailureLog ==
  /\ b_pc = "failLog"
  /\ \/ /\ b_logRows' = b_logRows + 1
        /\ AfterEmail
        /\ UNCHANGED b_faults
     \/ /\ CanFail
        /\ b_faults' = b_faults + 1
        /\ b_pc' = "fail"
        /\ UNCHANGED <<b_logRows, b_idx>>
  /\ UNCHANGED <<batchJob, emails, notifyUser, processed, validCount,
                 invalidCount, attemptsMade, b_notified>>
  /\ UNCHANGED h_jobFault
  /\ BatchFrame

\* await BatchJob.findOneAndUpdate({batchId}, {status: "completed", ...})
SetCompleted ==
  /\ b_pc = "complete"
  /\ \/ /\ batchJob' = FindOneAndUpdate(batchJob,
                         [status |-> "completed",
                          processedEmails |-> processed,
                          validEmails |-> validCount,
                          invalidEmails |-> invalidCount,
                          completedAt |-> TRUE])
        /\ b_pc' = IF notifyUser THEN "findUser" ELSE "returned"
        /\ UNCHANGED <<b_faults, h_jobFault>>
     \/ /\ CanFail
        /\ b_faults' = b_faults + 1
        /\ h_jobFault' = TRUE
        /\ b_pc' = "fail"
        /\ UNCHANGED batchJob
  /\ UNCHANGED <<emails, notifyUser, b_idx, processed, validCount,
                 invalidCount, attemptsMade, b_logRows, b_notified>>
  /\ BatchFrame

\* await User.findById(userId), then sendVerificationCompletedEmail, which
\* catches its own errors.
Notify ==
  /\ b_pc = "findUser"
  /\ \/ /\ b_notified' = b_notified + 1
        /\ b_pc' = "returned"
        /\ UNCHANGED <<b_faults, h_jobFault>>
     \/ /\ CanFail
        /\ b_faults' = b_faults + 1
        /\ h_jobFault' = TRUE
        /\ b_pc' = "fail"
        /\ UNCHANGED b_notified
  /\ UNCHANGED <<batchJob, emails, notifyUser, b_idx, processed, validCount,
                 invalidCount, attemptsMade, b_logRows>>
  /\ BatchFrame

\* The outer catch: await BatchJob.findOneAndUpdate({batchId}, {status:
\* "failed", ...}), then throw; the update may itself reject.
SetFailed ==
  /\ b_pc = "fail"
  /\ \/ /\ batchJob' = FindOneAndUpdate(batchJob,
                         [status |-> "failed", error |-> "error.message",
                          processedEmails |-> processed,
                          validEmails |-> validCount,
                          invalidEmails |-> invalidCount])
        /\ UNCHANGED <<b_faults, h_jobFault>>
     \/ /\ CanFail
        /\ b_faults' = b_faults + 1
        /\ h_jobFault' = TRUE
        /\ UNCHANGED batchJob
  /\ b_pc' = "thrown"
  /\ UNCHANGED <<emails, notifyUser, b_idx, processed, validCount,
                 invalidCount, attemptsMade, b_logRows, b_notified>>
  /\ BatchFrame

\* Bull after a rejected attempt: the item waits for its next attempt while
\* attempts remain, and is failed for good otherwise.
BullRetry ==
  /\ b_pc = "thrown"
  /\ attemptsMade' = attemptsMade + 1
  /\ b_pc' = IF attemptsMade + 1 < MaxAttempts THEN "waiting" ELSE "dead"
  /\ UNCHANGED <<batchJob, emails, notifyUser, b_idx, processed, validCount,
                 invalidCount, b_logRows, b_faults, b_notified>>
  /\ UNCHANGED h_jobFault
  /\ BatchFrame

\* The administrative action of cancelling a batch that a worker is
\* processing.  Nothing in the repository implements it; the signal is kept
\* apart from every variable the processor reads.
CancelBatch ==
  /\ b_pc \in {"verify", "log", "flush", "failLog"}
  /\ b_cancelledAt = -1
  /\ b_cancelledAt' = b_idx
  /\ UNCHANGED <<batchJob, emails, notifyUser, b_pc, b_idx, processed,
                 validCount, invalidCount, attemptsMade, b_logRows, b_faults,
                 b_notified, h_jobFault>>
  /\ UNCHANGED <<smtpVars, govVars, verVars, fnVars, subVars>>

BatchNext ==
  \/ BatchStart
  \/ SetProcessing
  \/ VerifyEmail
  \/ WriteLog
  \/ Flush
  \/ WriteFailureLog
  \/ SetCompleted
  \/ Notify
  \/ SetFailed
  \/ BullRetry

(***************************************************************************)
(* Pipeline                                                                *)
(***************************************************************************)

\* The boolean options verify destructures (queue.js 556-568); logVerification
\* is read nowhere in verify.
OptionNames ==
  {"checkCache", "checkSyntax", "checkMx", "checkDisposable",
   "checkDomainTypos", "checkCatchAll", "checkSmtp", "checkSpamTrap",
   "checkRoleAccount", "cacheResults", "useAlternativeDns"}

Options == [OptionNames -> BOOLEAN]

\* The defaults of the destructuring.
DefaultOptions == [n \in OptionNames |-> n # "useAlternativeDns"]

\* Parts an address may split into on "@" (bound).
MaxParts == 3

\* Sample addresses, each as email.split("@") returns it.
Emails ==
  {e \in { <<"User", "Example.COM">>,
           <<"User", "mailinator.com">>,
           <<"User", "example..com">>,
           <<"User", "idn-overflow.example">>,
           <<"Userexample.com">>,
           <<"User", "Example.COM", "example.com">>,
           <<"a", "b", "c", "example.com">> } : Len(e) <= MaxParts}

\* String.prototype.toLowerCase on the sample strings.
ToLowerCase(rawDomain) ==
  IF rawDomain = "Example.COM" THEN "example.com"
  ELSE IF rawDomain = "User" THEN "user"
  ELSE IF rawDomain = "Userexample.com" THEN "userexample.com"
  ELSE rawDomain

\* punycode.toASCII throws a RangeError on input it cannot encode and leaves
\* an ASCII domain as it is.
ToASCIIThrows(domain) == domain = "idn-overflow.example"

\* validator.isEmail on the sample addresses.  The additional checks of
\* performSyntaxCheck (username length, "..", hyphens, TLD length) reject
\* nothing that validator accepted among them.
IsEmail(e) == Len(e) = 2 /\ e[2] \in {"Example.COM", "mailinator.com"}

\* The list both verifiers consult for disposable domains.
DisposableEmailDomains == {"mailinator.com"}

\* suggestCorrection's table of direct corrections, on the sample domains:
\* none of them is a key of the table or within the edit distance of a
\* common domain.
SuggestCorrection(e) ==
  IF Len(e) = 2 /\ e[2] = "gmal.com" THEN <<e[1], "gmail.com">> ELSE "null"

\* isRandom of checkSpamTrapIndicators: eight or more letters and digits, no
\* vowel.
IsRandomUsername(username) == username = "xkcdqwrt"

\* What performSmtpCheck leaves in result.smtpCheck and pushes on
\* result.errors, over the ways the probe can end.
ProbeOutcomes ==
  {[smtpCheck |-> TRUE, error |-> "SMTP check error: RATE_LIMIT_MINUTE"],
   [smtpCheck |-> FALSE, error |-> "SMTP check timed out"],
   [smtpCheck |-> FALSE, error |-> "SMTP check failed: address rejected"]}

\* The result object of EnhancedEmailVerifier.verify (timestamp,
\* processingTimeMs and the other entries of details are left out).
NewResult(e) ==
  [email |-> e, isValid |-> FALSE, formatValid |-> FALSE, hasMx |-> FALSE,
   isDisposable |-> FALSE, isCatchAll |-> FALSE, isRoleAccount |-> FALSE,
   isSpamTrap |-> FALSE, smtpCheck |-> FALSE, suggestion |-> "null",
   domain |-> "null", errors |-> <<>>,
   details |-> [smtpBlocked |-> FALSE, mx |-> [records |-> <<>>, count |-> 0]]]

\* The result object of the basic EmailVerifier.verify.
NewBasicResult(e) ==
  [email |-> e, isValid |-> FALSE, formatValid |-> FALSE, hasMx |-> FALSE,
   isDisposable |-> FALSE, smtpCheck |-> FALSE, suggestion |-> "null",
   domain |-> "null", errors |-> <<>>]

PushError(r, message) == [r EXCEPT !.errors = Append(@, message)]

\* MX records one DNS answer may hold (bound).
MaxMxRecords == 4

MxRecord(exchange, priority) == [exchange |-> exchange, priority |-> priority]

\* Sample answers of an MX query, in the order DNS returns the records.
DnsAnswers ==
  {a \in { <<>>,
           <<MxRecord("mx1", 10)>>,
           <<MxRecord("mxa", 10), MxRecord("mxb", 10)>>,
           <<MxRecord("mxa", 20), MxRecord("mxb", 30), MxRecord("mxc", 40),
             MxRecord("mxd", 10)>>,
           <<MxRecord("mxa", 20), MxRecord("mxb", 30), MxRecord("mxc", 40),
             MxRecord("mxd", 50), MxRecord("mxe", 10)>> } :
     Len(a) <= MaxMxRecords}

DnsErrors == {"ENOTFOUND", "ETIMEOUT"}

\* How a resolver call ends: with an answer, or with an error thrown
\* (ENOTFOUND for a domain that does not exist, ETIMEOUT for a resolver that
\* does not answer).
DnsReplies ==
  {[error |-> FALSE, code |-> "none", records |-> a] : a \in DnsAnswers}
    \cup {[error |-> TRUE, code |-> c, records |-> <<>>] : c \in DnsErrors}

\* `verify:${email.toLowerCase()}`
CacheKey(e) == [i \in 1..Len(e) |-> ToLowerCase(e[i])]

CacheKeys == {CacheKey(e) : e \in Emails}

\* `mx:${domain.toLowerCase()}` for the domains of the sample addresses.
MxKeys == {ToLowerCase(e[2]) : e \in {x \in Emails : Len(x) = 2}}

\* redisClient.get on a key that does not exist answers null.
NoEntry == [present |-> FALSE, value |-> [email |-> <<>>], ttl |-> 0]

NoMxEntry == [present |-> FALSE, value |-> <<>>, ttl |-> 0]

\* redisClient.setEx(key, duration, JSON.stringify(value)); JSON.parse gives
\* back the fields the model keeps (booleans, strings, arrays) as they were.
\* (JSON.stringify and JSON.parse keep every field kept here: booleans,
\* strings, null, arrays and plain objects.)
SetEx(store, key, duration, value) ==
  [store EXCEPT ![key] = [present |-> TRUE, value |-> value, ttl |-> duration]]

\* getCachedVerificationResult / getCachedMxRecords: null when the client is
\* not ready or the get throws, else the entry or null.
GetCached(available, store, key, null) ==
  IF available THEN store[key] ELSE null

\* cacheVerificationResult / cacheMxRecords: nothing is written when the
\* client is not ready or setEx throws.
CacheSet(available, store, key, duration, value) ==
  IF available THEN SetEx(store, key, duration, value) ELSE store

\* The two cache durations of verify, in seconds.
DayTtl == 86400

HalfDayTtl == 43200

\* isDomainBlocked: value === "blocked", and false when the client is not
\* ready or the get throws.
IsDomainBlockedAnswer(available, value) == available /\ value = "blocked"

\* getSmtpDelay: nothing up to a usage ratio of 0.8, then
\* floor((usageRatio - 0.8) * 10 * 1000); 100 when the get throws.
GetSmtpDelayAnswer(available, minuteCount) ==
  IF ~available THEN 100
  ELSE IF 10 * minuteCount > 8 * limitConfig.maxPerMinute
    THEN (10000 * minuteCount - 8000 * limitConfig.maxPerMinute)
           \div limitConfig.maxPerMinute
    ELSE 0

\* getNextIp that lets the Redis error out instead of answering ipPool[0].
GetNextIpRethrows(available, minuteCount, hourCount, currentIndex) ==
  IF ~available THEN "Error"
  ELSE IF RateLimitCheck(minuteCount, hourCount) # "pass"
    THEN RateLimitCheck(minuteCount, hourCount)
    ELSE ipPool[currentIndex + 1]

\* getNextIp as one sequential call: the rate-limit error it throws, the IP
\* at the stored index, or ipPool[0] when a Redis call throws.
GetNextIpAnswer(available, minuteCount, hourCount, currentIndex) ==
  IF ~available THEN ipPool[1]
  ELSE IF RateLimitCheck(minuteCount, hourCount) # "pass"
    THEN RateLimitCheck(minuteCount, hourCount)
    ELSE ipPool[currentIndex + 1]

\* One call to the cache store, for the history: what it answered, or that
\* it threw.
StoreOp(op, available, returned, threw) ==
  [op |-> op, available |-> available, returned |-> returned, threw |-> threw]

EmptyVerifyCache == [k \in CacheKeys |-> NoEntry]

EmptyMxCache == [d \in MxKeys |-> NoMxEntry]

VerifyInit ==
  /\ mxCache = EmptyMxCache
  /\ mxPending = FALSE
  /\ h_mxRecords = <<>>
  /\ h_mxDomain = "none"
  /\ h_work = {}
  /\ h_storeOps = <<>>
  /\ h_dnsLog = <<>>
  /\ h_prevRet = [email |-> <<>>]
  /\ verifier = "none"
  /\ v_pc = "idle"
  /\ email = <<>>
  /\ options = DefaultOptions
  /\ result = NewResult(<<>>)
  /\ timeoutPromise = "none"
  /\ raceAttached = FALSE
  /\ v_outcome = "none"
  /\ v_ret = [email |-> <<>>]
  /\ h_timedOut = FALSE
  /\ h_lateSteps = {}
  /\ h_unhandled = FALSE

\* The awaits of verify that wait for I/O or for a timer: only there can the
\* 10 s timer's callback run.
IoSteps ==
  {"cache", "storeInvalid", "race", "blocked", "delay", "sleep", "smtp",
   "catchall", "spamtrap", "store"}

\* return value;
Returned(value) == [outcome |-> "returned", value |-> value]

\* A rejection leaving the async function.
Rejected(message) == [outcome |-> "rejected", value |-> [message |-> message]]

\* The catch of verify without its return: the error leaves the call.
VerifyCatchRethrows(message) == Rejected(message)

\* The catch of verify: a new object, with none of the signals of result.
VerifyCatch(message) ==
  Returned([email |-> email, isValid |-> FALSE,
            errors |-> <<"Verification process failed: " \o message>>])

\* The call goes on to its next await.
Continue(r, pc) ==
  /\ result' = r
  /\ v_pc' = pc
  /\ h_lateSteps' = IF timeoutPromise = "rejected" /\ pc \in IoSteps
                      THEN h_lateSteps \cup {pc}
                      ELSE h_lateSteps
  /\ UNCHANGED <<v_outcome, v_ret>>

\* The call ends.
Settle(r, completion) ==
  /\ result' = r
  /\ v_pc' = "done"
  /\ v_outcome' = completion.outcome
  /\ v_ret' = completion.value
  /\ UNCHANGED h_lateSteps

\* The options of a caller that repeats calls: the cache and SMTP switches
\* vary, the role-account check is off, the rest is at its default.
RepeatOptions ==
  {o \in Options :
     /\ ~o.checkRoleAccount /\ ~o.useAlternativeDns
     /\ o.checkSyntax /\ o.checkMx /\ o.checkDisposable /\ o.checkDomainTypos
     /\ o.checkCatchAll /\ o.checkSpamTrap}

\* The history of the step: what it did, and its cache store calls.
DidDns(work, ops, queries) ==
  /\ h_work' = h_work \cup work
  /\ h_storeOps' = ops
  /\ h_dnsLog' = queries

\* A step that queries no MX records.
Did(work, ops) == DidDns(work, ops, <<>>)

\* The step leaves the cache store and the MX history alone.
Quiet == UNCHANGED <<verifyCache, mxCache, mxPending, h_mxRecords, h_mxDomain>>

CallerFrame == UNCHANGED <<callerProfile, callsLeft, h_prevRet>>

\* verify(email, options) up to its first await: the result object and the
\* timer behind timeoutPromise are created.  A caller's next call begins when
\* the previous one has returned and left no MX lookup behind.
VerifyCall ==
  /\ v_pc \in {"idle", "done"}
  /\ verifier # "basic"
  /\ callsLeft > 0
  /\ ~mxPending
  /\ callsLeft' = callsLeft - 1
  /\ \E e \in Emails,
        o \in (IF callerProfile = "any" THEN Options ELSE RepeatOptions) :
       /\ (callerProfile = "repeat" /\ v_pc = "done") => (e = email /\ o = options)
       /\ verifier' = "enhanced"
       /\ email' = e
       /\ options' = o
       /\ result' = NewResult(e)
       /\ v_pc' = IF o.checkCache THEN "cache" ELSE "split"
  /\ timeoutPromise' = "pending"
  /\ raceAttached' = FALSE
  /\ v_outcome' = "none"
  /\ v_ret' = [email |-> <<>>]
  /\ h_timedOut' = FALSE
  /\ h_lateSteps' = {}
  /\ h_unhandled' = FALSE
  /\ h_work' = {}
  /\ h_storeOps' = <<>>
  /\ h_dnsLog' = <<>>
  /\ h_mxRecords' = <<>>
  /\ h_mxDomain' = "none"
  /\ h_prevRet' = IF v_pc = "done" /\ verifyCache[CacheKey(email)].present
                    THEN v_ret ELSE [email |-> <<>>]
  /\ UNCHANGED <<callerProfile, verifyCache, mxCache, mxPending>>
  /\ VerFrame

\* The cached result without its mark.
FromCacheUnmarked(cachedResult) == cachedResult.value

\* cachedResult.fromCache = true; return cachedResult
FromCache(cachedResult) == ("fromCache" :> TRUE) @@ cachedResult.value

\* getCachedVerificationResult answers: null on a miss and on any Redis
\* failure, the stored object on a hit.
CacheLookup ==
  /\ v_pc = "cache"
  /\ \E available \in BOOLEAN :
       LET cachedResult ==
             GetCached(available, verifyCache, CacheKey(email), NoEntry)
       IN /\ IF cachedResult.present
               THEN Settle(result,
                           Returned(FromCache(cachedResult)))
               ELSE Continue(result, "split")
          /\ Did({}, <<StoreOp("getCachedVerificationResult", available,
                               cachedResult, FALSE)>>)
  /\ Quiet
  /\ CallerFrame
  /\ UNCHANGED <<verifier, email, options, timeoutPromise, raceAttached,
                 h_timedOut, h_unhandled>>
  /\ VerFrame

\* A parse failure that returns the result without an error in it.
ParseFailureSilent(r) == r

\* result.errors.push("Invalid email format") of a failed split.
ParseFailure(r) == PushError(r, "Invalid email format")

\* email.split("@") and punycode.toASCII.
SplitEmail ==
  /\ v_pc = "split"
  /\ IF Len(email) # 2
       THEN Settle(ParseFailure(result), Returned(ParseFailure(result)))
       ELSE IF ToASCIIThrows(ToLowerCase(email[2]))
         THEN Settle(PushError(result, "Invalid domain encoding"),
                     Returned(PushError(result, "Invalid domain encoding")))
         ELSE Continue([result EXCEPT !.domain = ToLowerCase(email[2])],
                       IF options.checkSyntax THEN "syntax" ELSE "parallel")
  /\ Did({}, <<>>)
  /\ Quiet
  /\ CallerFrame
  /\ UNCHANGED <<verifier, email, options, timeoutPromise, raceAttached,
                 h_timedOut, h_unhandled>>
  /\ VerFrame

\* performSyntaxCheck and the early return on an invalid format.
PerformSyntaxCheck ==
  /\ v_pc = "syntax"
  /\ IF IsEmail(email)
       THEN Continue([result EXCEPT !.formatValid = TRUE], "parallel")
       ELSE IF options.cacheResults
         THEN Continue(PushError(result, "Invalid email format"),
                       "storeInvalid")
         ELSE Settle(PushError(result, "Invalid email format"),
                     Returned(PushError(result, "Invalid email format")))
  /\ Did({}, <<>>)
  /\ Quiet
  /\ CallerFrame
  /\ UNCHANGED <<verifier, email, options, timeoutPromise, raceAttached,
                 h_timedOut, h_unhandled>>
  /\ VerFrame

\* await cacheVerificationResult(email, result, 86400) of the invalid-format
\* result (it swallows every Redis failure), and verify returns.
StoreInvalid ==
  /\ v_pc = "storeInvalid"
  /\ \E available \in BOOLEAN :
       /\ verifyCache' = CacheSet(available, verifyCache, CacheKey(email),
                                  DayTtl, result)
       /\ Did({"cacheWrite"},
              <<StoreOp("cacheVerificationResult", available, "undefined", FALSE)>>)
  /\ Settle(result, Returned(result))
  /\ CallerFrame
  /\ UNCHANGED <<mxCache, mxPending, h_mxRecords, h_mxDomain>>
  /\ UNCHANGED <<verifier, email, options, timeoutPromise, raceAttached,
                 h_timedOut, h_unhandled>>
  /\ VerFrame

\* checkDisposableDomain, which has no await.
CheckDisposableDomain(r) ==
  IF r.domain \in DisposableEmailDomains
    THEN PushError([r EXCEPT !.isDisposable = TRUE],
                   "Disposable email address detected")
    ELSE [r EXCEPT !.isDisposable = FALSE]

\* The array literal handed to Promise.all, then Promise.race.  The elements
\* are evaluated in order: checkDisposableDomain runs to its end,
\* checkMxRecords to its first await, and this.checkRoleAccount is no method
\* of EnhancedEmailVerifier, so calling it throws a TypeError into the catch.
\* A checkMxRecords already started goes on after verify has returned.
ParallelBlock ==
  /\ v_pc = "parallel"
  /\ LET r1 == IF options.checkDisposable
                 THEN CheckDisposableDomain(result) ELSE result
         r2 == IF options.checkDomainTypos
                 THEN [r1 EXCEPT !.suggestion = SuggestCorrection(email)]
                 ELSE r1
     IN IF options.checkRoleAccount
          THEN /\ Settle(r1, VerifyCatch("this.checkRoleAccount is not a function"))
               /\ mxPending' = options.checkMx
               /\ UNCHANGED <<raceAttached, h_timedOut>>
          ELSE /\ raceAttached' = TRUE
               /\ IF timeoutPromise = "rejected"
                    THEN /\ Settle(r2, VerifyCatch("Verification timeout"))
                         /\ mxPending' = options.checkMx
                         /\ h_timedOut' = TRUE
                    ELSE /\ Continue(r2, IF options.checkMx THEN "race"
                                         ELSE "final")
                         /\ UNCHANGED <<h_timedOut, mxPending>>
  /\ Did({}, <<>>)
  /\ CallerFrame
  /\ UNCHANGED <<verifyCache, mxCache, h_mxRecords, h_mxDomain>>
  /\ UNCHANGED <<verifier, email, options, timeoutPromise, h_unhandled>>
  /\ VerFrame

\* How the basic verifier's resolveMx ends.
MxOutcomes == {"records", "empty", "error"}

\* The MX lookup of checkMxRecords: the cached records, else the primary
\* resolver, else (useAlternative) the alternative resolver; when both
\* resolvers fail the primary error is thrown.
ResolveMx(cachedMx, primary, alternative, useAlternative) ==
  IF cachedMx.present
    THEN [error |-> FALSE, code |-> "none", records |-> cachedMx.value]
  ELSE IF ~primary.error THEN primary
  ELSE IF useAlternative /\ ~alternative.error THEN alternative
  ELSE primary

\* The resolver calls of checkMxRecords, in order, each with how it ended.
MxQueries(cachedMx, primary, alternative, useAlternative) ==
  IF cachedMx.present THEN <<>>
  ELSE <<[resolver |-> "primary", code |-> primary.code]>> \o
       (IF primary.error /\ useAlternative
          THEN <<[resolver |-> "alternative", code |-> alternative.code]>>
          ELSE <<>>)

\* mxRecords.slice(0, 3)
Slice3(records) ==
  SubSeq(records, 1, IF Len(records) < 3 THEN Len(records) ELSE 3)

\* What checkMxRecords leaves in result for a lookup that ended with reply.
MxResult(r, reply) ==
  IF reply.error
    THEN PushError([r EXCEPT !.hasMx = FALSE], "MX lookup failed: " \o reply.code)
    ELSE IF Len(reply.records) = 0
      THEN PushError([r EXCEPT !.hasMx = FALSE],
                     "No MX records found for domain")
      ELSE [r EXCEPT !.hasMx = TRUE,
                     !.details.mx = [records |-> Slice3(reply.records),
                                     count |-> Len(reply.records)]]

\* The cache store after a checkMxRecords that caches whatever DNS answered,
\* an empty answer included.
MxCacheAlways(available, cachedMx, reply, domain) ==
  IF ~cachedMx.present /\ ~reply.error
    THEN CacheSet(available, mxCache, domain, DayTtl, reply.records)
    ELSE mxCache

\* The cache store after checkMxRecords: records that DNS returned are
\* written under mx:{domain} for a day.
MxCacheAfter(available, cachedMx, reply, domain) ==
  IF ~cachedMx.present /\ ~reply.error /\ Len(reply.records) > 0
    THEN CacheSet(available, mxCache, domain, DayTtl, reply.records)
    ELSE mxCache

\* The cache store calls of checkMxRecords.
MxStoreOps(availableGet, availableSet, cachedMx, reply) ==
  <<StoreOp("getCachedMxRecords", availableGet, cachedMx, FALSE)>> \o
    (IF ~cachedMx.present /\ ~reply.error /\ Len(reply.records) > 0
       THEN <<StoreOp("cacheMxRecords", availableSet, "undefined", FALSE)>>
       ELSE <<>>)

\* checkMxRecords completes while verify waits in Promise.race.
CheckMxRecords ==
  /\ v_pc = "race"
  /\ \E availableGet \in BOOLEAN, availableSet \in BOOLEAN,
        primary \in DnsReplies, alternative \in DnsReplies :
       LET cachedMx == GetCached(availableGet, mxCache, result.domain, NoMxEntry)
           reply == ResolveMx(cachedMx, primary, alternative,
                              options.useAlternativeDns)
           r == MxResult(result, reply)
       IN /\ Continue(r, IF r.hasMx THEN "blocked" ELSE "final")
          /\ mxCache' = MxCacheAfter(availableSet, cachedMx, reply, result.domain)
          /\ h_mxRecords' = reply.records
          /\ DidDns(IF cachedMx.present THEN {} ELSE {"dns"},
                    MxStoreOps(availableGet, availableSet, cachedMx, reply),
                    MxQueries(cachedMx, primary, alternative,
                              options.useAlternativeDns))
  /\ CallerFrame
  /\ UNCHANGED <<verifyCache, mxPending, h_mxDomain>>
  /\ UNCHANGED <<verifier, email, options, timeoutPromise, raceAttached,
                 h_timedOut, h_unhandled>>
  /\ VerFrame

\* A checkMxRecords left behind by a verify that ended in its catch completes:
\* it still queries and caches, and its result object is no longer read.
DetachedMxLookup ==
  /\ mxPending
  /\ mxPending' = FALSE
  /\ \E availableGet \in BOOLEAN, availableSet \in BOOLEAN,
        primary \in DnsReplies, alternative \in DnsReplies :
       LET cachedMx == GetCached(availableGet, mxCache, result.domain, NoMxEntry)
           reply == ResolveMx(cachedMx, primary, alternative,
                              options.useAlternativeDns)
       IN /\ mxCache' = MxCacheAfter(availableSet, cachedMx, reply, result.domain)
          /\ h_mxRecords' = reply.records
          /\ DidDns(IF cachedMx.present THEN {} ELSE {"dns"},
                    MxStoreOps(availableGet, availableSet, cachedMx, reply),
                    MxQueries(cachedMx, primary, alternative,
                              options.useAlternativeDns))
  /\ CallerFrame
  /\ UNCHANGED <<verifyCache, h_mxDomain, result, v_pc, v_outcome, v_ret,
                 h_lateSteps>>
  /\ UNCHANGED <<verifier, email, options, timeoutPromise, raceAttached,
                 h_timedOut, h_unhandled>>
  /\ VerFrame

\* The callback of the 10 s timer rejects timeoutPromise.  Only a call
\* waiting in Promise.race is woken by it, into the catch.
TimerFires ==
  /\ timeoutPromise = "pending"
  /\ v_pc \in IoSteps \cup {"done"}
  /\ timeoutPromise' = "rejected"
  /\ h_unhandled' = (h_unhandled \/ ~raceAttached)
  /\ IF v_pc = "race"
       THEN /\ Settle(result, VerifyCatch("Verification timeout"))
            /\ mxPending' = TRUE
            /\ h_timedOut' = TRUE
       ELSE UNCHANGED <<result, v_pc, v_outcome, v_ret, h_lateSteps,
                        h_timedOut, mxPending>>
  /\ CallerFrame
  /\ UNCHANGED <<verifyCache, mxCache, h_mxRecords, h_mxDomain, h_work,
                 h_storeOps, h_dnsLog>>
  /\ UNCHANGED <<verifier, email, options, raceAttached>>
  /\ VerFrame

\* Where verify goes after the SMTP check (or after skipping it).
AfterSmtp(r) ==
  IF options.checkCatchAll /\ r.smtpCheck /\ ~r.isDisposable THEN "catchall"
  ELSE IF options.checkSpamTrap THEN "spamtrap"
  ELSE "final"

\* The gate that goes on to the probe whatever isDomainBlocked answered.
GateIgnoresBlock(r, domainBlocked) ==
  IF options.checkSmtp THEN "delay" ELSE AfterSmtp(r)

\* if (checkSmtp && !domainBlocked): the delay and the probe, or past them.
BlockListGate(r, domainBlocked) ==
  IF options.checkSmtp /\ ~domainBlocked THEN "delay" ELSE AfterSmtp(r)

\* isDomainBlocked answers (false on any Redis failure).
IsDomainBlocked ==
  /\ v_pc = "blocked"
  /\ \E available \in BOOLEAN, value \in {"blocked", "null"} :
       LET domainBlocked == IsDomainBlockedAnswer(available, value)
           r == [result EXCEPT !.details.smtpBlocked = domainBlocked]
       IN /\ Continue(r, BlockListGate(r, domainBlocked))
          /\ Did({"governor"},
                 <<StoreOp("isDomainBlocked", available, domainBlocked,
                         FALSE)>>)
  /\ Quiet
  /\ CallerFrame
  /\ UNCHANGED <<verifier, email, options, timeoutPromise, raceAttached,
                 h_timedOut, h_unhandled>>
  /\ VerFrame

\* getSmtpDelay answers: 0, or the milliseconds to wait.
GetSmtpDelay ==
  /\ v_pc = "delay"
  /\ \E available \in BOOLEAN, minuteCount \in 0..limitConfig.maxPerMinute :
       LET delay == GetSmtpDelayAnswer(available, minuteCount)
       IN /\ Continue(result, IF delay > 0 THEN "sleep" ELSE "smtp")
          /\ Did({"governor"}, <<StoreOp("getSmtpDelay", available, delay, FALSE)>>)
  /\ Quiet
  /\ CallerFrame
  /\ UNCHANGED <<verifier, email, options, timeoutPromise, raceAttached,
                 h_timedOut, h_unhandled>>
  /\ VerFrame

\* The rate-limit delay has passed.
Sleep ==
  /\ v_pc = "sleep"
  /\ Continue(result, "smtp")
  /\ Did({}, <<>>)
  /\ Quiet
  /\ CallerFrame
  /\ UNCHANGED <<verifier, email, options, timeoutPromise, raceAttached,
                 h_timedOut, h_unhandled>>
  /\ VerFrame

\* The exchange with the lowest priority among the records kept in
\* result.details.mx (Array.prototype.sort is stable), or null.
GetMxDomain(r) ==
  LET records == r.details.mx.records
  IN IF Len(records) > 0
       THEN records[CHOOSE i \in 1..Len(records) :
                      /\ \A j \in 1..Len(records) :
                           records[i].priority <= records[j].priority
                      /\ \A j \in 1..(i - 1) :
                           records[j].priority > records[i].priority].exchange
       ELSE "null"

\* mxDomain || domain
ConnectHost(r) == IF GetMxDomain(r) # "null" THEN GetMxDomain(r) ELSE r.domain

\* performSmtpCheck resolves: getNextIp answers, and unless it threw a
\* rate-limit error the probe connects and the dialog ends unaccepted.
PerformSmtpCheck ==
  /\ v_pc = "smtp"
  /\ \E available \in BOOLEAN, minuteCount \in {0, limitConfig.maxPerMinute} :
       LET ip == GetNextIpAnswer(available, minuteCount, 0, 0)
       IN /\ \E o \in {x \in ProbeOutcomes :
                         x.smtpCheck = (ip \notin IpAddresses)} :
               LET r == PushError([result EXCEPT !.smtpCheck = o.smtpCheck],
                                  o.error)
               IN Continue(r, AfterSmtp(r))
          /\ h_mxDomain' = IF ip \in IpAddresses THEN ConnectHost(result)
                           ELSE h_mxDomain
          /\ Did(IF ip \in IpAddresses THEN {"governor", "acquire", "smtp"}
                 ELSE {"governor", "acquire"},
                 <<StoreOp("getNextIp", available, ip, ip \notin IpAddresses)>>)
  /\ CallerFrame
  /\ UNCHANGED <<verifyCache, mxCache, mxPending, h_mxRecords>>
  /\ UNCHANGED <<verifier, email, options, timeoutPromise, raceAttached,
                 h_timedOut, h_unhandled>>
  /\ VerFrame

\* checkCatchAllDomain: a second probe, on a random address, into a result
\* object of its own (which holds no MX records: that probe connects to the
\* domain itself).
CheckCatchAllDomain ==
  /\ v_pc = "catchall"
  /\ \E available \in BOOLEAN, minuteCount \in {0, limitConfig.maxPerMinute} :
       LET ip == GetNextIpAnswer(available, minuteCount, 0, 0)
       IN /\ \E o \in {x \in ProbeOutcomes :
                         x.smtpCheck = (ip \notin IpAddresses)} :
               Continue([result EXCEPT !.isCatchAll = o.smtpCheck],
                        IF options.checkSpamTrap THEN "spamtrap" ELSE "final")
          /\ Did(IF ip \in IpAddresses THEN {"governor", "acquire", "smtp"}
                 ELSE {"governor", "acquire"},
                 <<StoreOp("getNextIp", available, ip, ip \notin IpAddresses)>>)
  /\ Quiet
  /\ CallerFrame
  /\ UNCHANGED <<verifier, email, options, timeoutPromise, raceAttached,
                 h_timedOut, h_unhandled>>
  /\ VerFrame

\* checkSpamTrapIndicators: the TXT lookup answers or fails (ignored either
\* way, isNewDomain being false).
CheckSpamTrapIndicators ==
  /\ v_pc = "spamtrap"
  /\ LET isRandom == IsRandomUsername(email[1])
     IN Continue(IF isRandom
                   THEN PushError([result EXCEPT !.isSpamTrap = TRUE],
                                  "Email matches spam trap patterns")
                   ELSE [result EXCEPT !.isSpamTrap = FALSE],
                 "final")
  /\ Did({"dns"}, <<>>)
  /\ Quiet
  /\ CallerFrame
  /\ UNCHANGED <<verifier, email, options, timeoutPromise, raceAttached,
                 h_timedOut, h_unhandled>>
  /\ VerFrame

\* The validity of the basic verifier, which asks for no SMTP evidence.
IsValidWithoutSmtp(r) == r.formatValid /\ r.hasMx /\ ~r.isDisposable

\* The final validity determination.
IsValid(r) ==
  /\ r.formatValid
  /\ r.hasMx
  /\ ~r.isDisposable
  /\ (r.smtpCheck \/ r.details.smtpBlocked)
  /\ ~r.isSpamTrap

Finalize ==
  /\ v_pc = "final"
  /\ LET r == [result EXCEPT !.isValid = IsValid(result)]
     IN IF options.cacheResults
          THEN Continue(r, "store")
          ELSE Settle(r, Returned(r))
  /\ Did({}, <<>>)
  /\ Quiet
  /\ CallerFrame
  /\ UNCHANGED <<verifier, email, options, timeoutPromise, raceAttached,
                 h_timedOut, h_unhandled>>
  /\ VerFrame

\* const cacheDuration = result.isValid ? 86400 : 43200
CacheDuration(r) == IF r.isValid THEN DayTtl ELSE HalfDayTtl

\* cacheVerificationResult answers (it swallows every Redis failure), and
\* verify returns.
CacheResult ==
  /\ v_pc = "store"
  /\ \E available \in BOOLEAN :
       /\ verifyCache' = CacheSet(available, verifyCache, CacheKey(email),
                                  CacheDuration(result), result)
       /\ Did({"cacheWrite"},
              <<StoreOp("cacheVerificationResult", available, "undefined", FALSE)>>)
  /\ Settle(result, Returned(result))
  /\ CallerFrame
  /\ UNCHANGED <<mxCache, mxPending, h_mxRecords, h_mxDomain>>
  /\ UNCHANGED <<verifier, email, options, timeoutPromise, raceAttached,
                 h_timedOut, h_unhandled>>
  /\ VerFrame

\* The basic EmailVerifier.verify(email) up to its await of resolveMx.
BasicVerifyCall ==
  /\ v_pc = "idle"
  /\ callerProfile = "any"
  /\ \E e \in Emails :
       LET r0 == NewBasicResult(e)
           r1 == [r0 EXCEPT !.domain = ToLowerCase(e[2])]
           r2 == [r1 EXCEPT !.formatValid = TRUE,
                            !.isDisposable = r1.domain \in DisposableEmailDomains]
       IN /\ verifier' = "basic"
          /\ email' = e
          /\ IF Len(e) # 2
               THEN Settle(ParseFailure(r0), Returned(ParseFailure(r0)))
               ELSE IF ~IsEmail(e)
                 THEN Settle(PushError(r1, "Invalid email format"),
                             Returned(PushError(r1, "Invalid email format")))
                 ELSE Continue(r2, "basicMx")
  /\ Did({}, <<>>)
  /\ Quiet
  /\ CallerFrame
  /\ UNCHANGED <<options, timeoutPromise, raceAttached, h_timedOut, h_unhandled>>
  /\ VerFrame

\* The end of the basic verify: the suggestion and the validity.
BasicFinal(r) ==
  [r EXCEPT !.suggestion = SuggestCorrection(email),
            !.isValid = r.formatValid /\ r.hasMx /\ ~r.isDisposable]

\* resolveMx answers or fails.
BasicResolveMx ==
  /\ v_pc = "basicMx"
  /\ \E mx \in MxOutcomes :
       CASE mx = "records" ->
              Continue([result EXCEPT !.hasMx = TRUE], "basicSmtp")
         [] mx = "empty" ->
              LET r == BasicFinal(PushError(result, "No MX records found for domain"))
              IN Settle(r, Returned(r))
         [] mx = "error" ->
              LET r == BasicFinal(PushError(result, "MX lookup failed"))
              IN Settle(r, Returned(r))
  /\ Did({"dns"}, <<>>)
  /\ Quiet
  /\ CallerFrame
  /\ UNCHANGED <<verifier, email, options, timeoutPromise, raceAttached,
                 h_timedOut, h_unhandled>>
  /\ VerFrame

\* basicSmtpCheck resolves: true on connect, false on timeout or error.
BasicSmtpCheck ==
  /\ v_pc = "basicSmtp"
  /\ \E connected \in BOOLEAN :
       LET r == BasicFinal([result EXCEPT !.smtpCheck = connected])
       IN Settle(r, Returned(r))
  /\ Did({"smtp"}, <<>>)
  /\ Quiet
  /\ CallerFrame
  /\ UNCHANGED <<verifier, email, options, timeoutPromise, raceAttached,
                 h_timedOut, h_unhandled>>
  /\ VerFrame

VerifyNext ==
  \/ VerifyCall
  \/ CacheLookup
  \/ SplitEmail
  \/ PerformSyntaxCheck
  \/ StoreInvalid
  \/ ParallelBlock
  \/ CheckMxRecords
  \/ TimerFires
  \/ IsDomainBlocked
  \/ GetSmtpDelay
  \/ Sleep
  \/ PerformSmtpCheck
  \/ CheckCatchAllDomain
  \/ CheckSpamTrapIndicators
  \/ Finalize
  \/ CacheResult
  \/ BasicVerifyCall
  \/ BasicResolveMx
  \/ BasicSmtpCheck
  \/ DetachedMxLookup

\* The enhanced verifier alone, for a caller that calls verify again.
VerifyRepeatNext ==
  \/ VerifyCall
  \/ CacheLookup
  \/ SplitEmail
  \/ PerformSyntaxCheck
  \/ StoreInvalid
  \/ ParallelBlock
  \/ CheckMxRecords
  \/ TimerFires
  \/ IsDomainBlocked
  \/ GetSmtpDelay
  \/ Sleep
  \/ PerformSmtpCheck
  \/ CheckCatchAllDomain
  \/ CheckSpamTrapIndicators
  \/ Finalize
  \/ CacheResult
  \/ DetachedMxLookup

(***************************************************************************)
(* Derived signals: functions of given inputs                              *)
(***************************************************************************)

\* No such function is called.
FnIdle ==
  /\ f_pc = "idle"
  /\ f_input = <<>>
  /\ f_output = <<>>

\* A call with the arguments input is about to run.
FnCalled(input) ==
  /\ f_pc = "called"
  /\ f_input = input
  /\ f_output = <<>>

\* The call returns output.
FnReturn(output) ==
  /\ f_pc = "called"
  /\ f_pc' = "returned"
  /\ f_output' = output
  /\ UNCHANGED f_input
  /\ FnFrame

LowerCaseLetters ==
  <<"a", "b", "c", "d", "e", "f", "g", "h", "i", "j", "k", "l", "m", "n",
    "o", "p", "q", "r", "s", "t", "u", "v", "w", "x", "y", "z">>

UpperCaseLetters ==
  <<"A", "B", "C", "D", "E", "F", "G", "H", "I", "J", "K", "L", "M", "N",
    "O", "P", "Q", "R", "S", "T", "U", "V", "W", "X", "Y", "Z">>

DigitChars == {"0", "1", "2", "3", "4", "5", "6", "7", "8", "9"}

\* The character a pattern with the i flag compares.
FoldCase(c) ==
  IF \E i \in 1..26 : UpperCaseLetters[i] = c
    THEN LowerCaseLetters[CHOOSE i \in 1..26 : UpperCaseLetters[i] = c]
    ELSE c

\* /[aeiou]/i.test(username), username a sequence of characters
HasVowels(username) ==
  \E i \in 1..Len(username) : FoldCase(username[i]) \in {"a", "e", "i", "o", "u"}

\* /^[a-z0-9]{8,}$/i.test(username)
IsAlnum8(username) ==
  /\ Len(username) >= 8
  /\ \A i \in 1..Len(username) :
       \/ \E k \in 1..26 : LowerCaseLetters[k] = FoldCase(username[i])
       \/ username[i] \in DigitChars

MaxUsernameLen == 9

\* Sample local parts: runs of "x" with one character of another kind in
\* one place (a vowel, a digit, a capital, a capital vowel, a dot).
Usernames ==
  {[i \in 1..n |-> IF i = p THEN c ELSE "x"] :
     n \in 0..MaxUsernameLen, p \in 1..MaxUsernameLen,
     c \in {"x", "e", "7", "Q", "E", "."}}

\* txtRecords.map((record) => record.join("")).join(" ")
RECURSIVE JoinWith(_, _)
JoinWith(strings, separator) ==
  IF Len(strings) = 0 THEN ""
  ELSE IF Len(strings) = 1 THEN strings[1]
  ELSE strings[1] \o separator \o JoinWith(Tail(strings), separator)

FlatRecords(txtRecords) ==
  JoinWith([i \in 1..Len(txtRecords) |-> JoinWith(txtRecords[i], "")], " ")

\* Sample answers of resolveTxt: the records, each a list of chunks, or an
\* error thrown.
TxtReplies ==
  {[error |-> TRUE, records |-> <<>>]} \cup
  {[error |-> FALSE, records |-> t] :
     t \in { <<>>,
             << <<"v=spf1 -all">> >>,
             << <<"honey", "pot">> >>,
             << <<"v=spf1 -all">>, <<"SPAM trap">> >> }}

\* /spam|trap|honeypot/i.test(flatRecords) on the sample answers.
SuspiciousPattern(flatRecords) ==
  flatRecords \in {"honeypot", "v=spf1 -all SPAM trap"}

\* checkSpamTrapIndicators: what it leaves in result.isSpamTrap and
\* result.details.spamTrapIndicators and pushes on result.errors.
SpamTrapIndicators(username, txt) ==
  LET isRandom == IsAlnum8(username) /\ ~HasVowels(username)
      isNewDomain == FALSE
      hasSuspiciousTxtRecords ==
        IF txt.error THEN FALSE
        ELSE SuspiciousPattern(FlatRecords(txt.records))
      isSpamTrap == isRandom \/ (isNewDomain /\ hasSuspiciousTxtRecords)
  IN [isSpamTrap |-> isSpamTrap,
      errors |-> IF isSpamTrap THEN <<"Email matches spam trap patterns">>
                 ELSE <<>>,
      suspiciousTxtRecords |-> hasSuspiciousTxtRecords]

\* A call of checkSpamTrapIndicators runs to its end.
SpamTrapCall ==
  /\ "txt" \in DOMAIN f_input
  /\ FnReturn(SpamTrapIndicators(f_input.username, f_input.txt))

SpamTrapNext == SpamTrapCall

MaxEdits == 2

\* A domain is the sequence of its characters.
Min3(x, y, z) ==
  IF x <= y /\ x <= z THEN x ELSE IF y <= z THEN y ELSE z

\* Row i of the matrix of levenshteinDistance, cell by cell: row holds the
\* cells 0..Len(row)-1 of the row, prev is row i-1, ai is a[i - 1].
RECURSIVE FillRow(_, _, _, _)
FillRow(row, prev, ai, b) ==
  IF Len(row) = Len(b) + 1 THEN row
  ELSE LET j == Len(row)
           cost == IF ai = b[j] THEN 0 ELSE 1
       IN FillRow(Append(row, Min3(prev[j + 1] + 1, row[j] + 1, prev[j] + cost)),
                  prev, ai, b)

RECURSIVE FillMatrix(_, _, _, _)
FillMatrix(prev, a, b, i) ==
  IF i > Len(a) THEN prev
  ELSE FillMatrix(FillRow(<<i>>, prev, a[i], b), a, b, i + 1)

\* levenshteinDistance(a, b) of both verifiers: matrix[a.length][b.length]
LevenshteinDistance(a, b) ==
  IF Len(a) = 0 THEN Len(b)
  ELSE IF Len(b) = 0 THEN Len(a)
  ELSE FillMatrix([j \in 1..(Len(b) + 1) |-> j - 1], a, b, 1)[Len(b) + 1]

\* commonDomains of EnhancedEmailVerifier.suggestCorrection, in the order of
\* Object.entries: each correct domain with its variants.
EnhancedCommonDomains ==
  <<[correctDomain |-> <<"g", "m", "a", "i", "l", ".", "c", "o", "m">>,
      variants |-> {<<"g", "m", "a", "i", "l", ".", "c", "o", "m">>,
                   <<"g", "o", "o", "g", "l", "e", "m", "a", "i", "l", ".", "c", "o", "m">>}],
    [correctDomain |-> <<"y", "a", "h", "o", "o", ".", "c", "o", "m">>,
      variants |-> {<<"y", "a", "h", "o", "o", ".", "c", "o", "m">>,
                   <<"y", "a", "h", "o", "o", ".", "c", "o", ".", "u", "k">>,
                   <<"y", "a", "h", "o", "o", ".", "c", "a">>,
                   <<"y", "a", "h", "o", "o", ".", "f", "r">>}],
    [correctDomain |-> <<"h", "o", "t", "m", "a", "i", "l", ".", "c", "o", "m">>,
      variants |-> {<<"h", "o", "t", "m", "a", "i", "l", ".", "c", "o", "m">>,
                   <<"o", "u", "t", "l", "o", "o", "k", ".", "c", "o", "m">>,
                   <<"l", "i", "v", "e", ".", "c", "o", "m">>}],
    [correctDomain |-> <<"o", "u", "t", "l", "o", "o", "k", ".", "c", "o", "m">>,
      variants |-> {<<"o", "u", "t", "l", "o", "o", "k", ".", "c", "o", "m">>,
                   <<"h", "o", "t", "m", "a", "i", "l", ".", "c", "o", "m">>}],
    [correctDomain |-> <<"a", "o", "l", ".", "c", "o", "m">>,
      variants |-> {<<"a", "o", "l", ".", "c", "o", "m">>}],
    [correctDomain |-> <<"i", "c", "l", "o", "u", "d", ".", "c", "o", "m">>,
      variants |-> {<<"i", "c", "l", "o", "u", "d", ".", "c", "o", "m">>,
                   <<"m", "e", ".", "c", "o", "m">>,
                   <<"m", "a", "c", ".", "c", "o", "m">>}],
    [correctDomain |-> <<"p", "r", "o", "t", "o", "n", "m", "a", "i", "l", ".", "c", "o", "m">>,
      variants |-> {<<"p", "r", "o", "t", "o", "n", "m", "a", "i", "l", ".", "c", "o", "m">>,
                   <<"p", "m", ".", "m", "e">>}],
    [correctDomain |-> <<"g", "m", "x", ".", "c", "o", "m">>,
      variants |-> {<<"g", "m", "x", ".", "c", "o", "m">>,
                   <<"g", "m", "x", ".", "d", "e">>}],
    [correctDomain |-> <<"m", "a", "i", "l", ".", "c", "o", "m">>,
      variants |-> {<<"m", "a", "i", "l", ".", "c", "o", "m">>}],
    [correctDomain |-> <<"y", "a", "n", "d", "e", "x", ".", "c", "o", "m">>,
      variants |-> {<<"y", "a", "n", "d", "e", "x", ".", "c", "o", "m">>,
                   <<"y", "a", "n", "d", "e", "x", ".", "r", "u">>}]>>

\* corrections of EnhancedEmailVerifier.suggestCorrection.
EnhancedCorrections ==
  {[typo |-> <<"g", "m", "a", "l", ".", "c", "o", "m">>,
    domain |-> <<"g", "m", "a", "i", "l", ".", "c", "o", "m">>],
   [typo |-> <<"g", "a", "m", "i", "l", ".", "c", "o", "m">>,
    domain |-> <<"g", "m", "a", "i", "l", ".", "c", "o", "m">>],
   [typo |-> <<"g", "n", "a", "i", "l", ".", "c", "o", "m">>,
    domain |-> <<"g", "m", "a", "i", "l", ".", "c", "o", "m">>],
   [typo |-> <<"g", "m", "i", "a", "l", ".", "c", "o", "m">>,
    domain |-> <<"g", "m", "a", "i", "l", ".", "c", "o", "m">>],
   [typo |-> <<"g", "m", "a", "i", "l", ".", "c", "o">>,
    domain |-> <<"g", "m", "a", "i", "l", ".", "c", "o", "m">>],
   [typo |-> <<"g", "m", "a", "i", "l", ".", "c", "o", "n">>,
    domain |-> <<"g", "m", "a", "i", "l", ".", "c", "o", "m">>],
   [typo |-> <<"g", "m", "a", "i", "l", ".", "o", "m">>,
    domain |-> <<"g", "m", "a", "i", "l", ".", "c", "o", "m">>],
   [typo |-> <<"g", "m", "a", "i", "l", ".", "c", "m">>,
    domain |-> <<"g", "m", "a", "i", "l", ".", "c", "o", "m">>],
   [typo |-> <<"g", "m", "a", "i", "l", "l", ".", "c", "o", "m">>,
    domain |-> <<"g", "m", "a", "i", "l", ".", "c", "o", "m">>],
   [typo |-> <<"g", "e", "m", "a", "i", "l", ".", "c", "o", "m">>,
    domain |-> <<"g", "m", "a", "i", "l", ".", "c", "o", "m">>],
   [typo |-> <<"g", "m", "a", "i", ".", "c", "o", "m">>,
    domain |-> <<"g", "m", "a", "i", "l", ".", "c", "o", "m">>],
   [typo |-> <<"g", "m", "a", "l", "i", ".", "c", "o", "m">>,
    domain |-> <<"g", "m", "a", "i", "l", ".", "c", "o", "m">>],
   [typo |-> <<"y", "a", "h", "o", "o", "o", ".", "c", "o", "m">>,
    domain |-> <<"y", "a", "h", "o", "o", ".", "c", "o", "m">>],
   [typo |-> <<"y", "a", "h", "o", ".", "c", "o", "m">>,
    domain |-> <<"y", "a", "h", "o", "o", ".", "c", "o", "m">>],
   [typo |-> <<"y", "a", "h", "o", "o", ".", "c", "o">>,
    domain |-> <<"y", "a", "h", "o", "o", ".", "c", "o", "m">>],
   [typo |-> <<"y", "a", "h", "o", "o", ".", "c", "o", "n">>,
    domain |-> <<"y", "a", "h", "o", "o", ".", "c", "o", "m">>],
   [typo |-> <<"y", "a", "h", "o", ".", "c", "o">>,
    domain |-> <<"y", "a", "h", "o", "o", ".", "c", "o", "m">>],
   [typo |-> <<"y", "a", "o", "o", ".", "c", "o", "m">>,
    domain |-> <<"y", "a", "h", "o", "o", ".", "c", "o", "m">>],
   [typo |-> <<"y", "m", "a", "i", "l", ".", "c", "o", "m">>,
    domain |-> <<"y", "a", "h", "o", "o", ".", "c", "o", "m">>],
   [typo |-> <<"h", "o", "t", "m", "i", "a", "l", ".", "c", "o", "m">>,
    domain |-> <<"h", "o", "t", "m", "a", "i", "l", ".", "c", "o", "m">>],
   [typo |-> <<"h", "o", "t", "m", "a", "i", "l", ".", "c", "o">>,
    domain |-> <<"h", "o", "t", "m", "a", "i", "l", ".", "c", "o", "m">>],
   [typo |-> <<"h", "o", "t", "m", "a", "l", ".", "c", "o", "m">>,
    domain |-> <<"h", "o", "t", "m", "a", "i", "l", ".", "c", "o", "m">>],
   [typo |-> <<"h", "o", "t", "m", "a", "i", ".", "c", "o", "m">>,
    domain |-> <<"h", "o", "t", "m", "a", "i", "l", ".", "c", "o", "m">>],
   [typo |-> <<"h", "o", "t", "m", "a", "i", "l", ".", "c", "m">>,
    domain |-> <<"h", "o", "t", "m", "a", "i", "l", ".", "c", "o", "m">>],
   [typo |-> <<"h", "o", "t", "m", "a", "i", "l", ".", "c", "o", "n">>,
    domain |-> <<"h", "o", "t", "m", "a", "i", "l", ".", "c", "o", "m">>],
   [typo |-> <<"h", "o", "t", "a", "m", "a", "i", "l", ".", "c", "o", "m">>,
    domain |-> <<"h", "o", "t", "m", "a", "i", "l", ".", "c", "o", "m">>],
   [typo |-> <<"h", "o", "t", "m", "a", "l", "i", ".", "c", "o", "m">>,
    domain |-> <<"h", "o", "t", "m", "a", "i", "l", ".", "c", "o", "m">>],
   [typo |-> <<"o", "u", "t", "l", "o", "k", ".", "c", "o", "m">>,
    domain |-> <<"o", "u", "t", "l", "o", "o", "k", ".", "c", "o", "m">>],
   [typo |-> <<"o", "u", "t", "o", "o", "k", ".", "c", "o", "m">>,
    domain |-> <<"o", "u", "t", "l", "o", "o", "k", ".", "c", "o", "m">>],
   [typo |-> <<"o", "u", "t", "l", "o", "o", "k", ".", "c", "o">>,
    domain |-> <<"o", "u", "t", "l", "o", "o", "k", ".", "c", "o", "m">>],
   [typo |-> <<"o", "u", "t", "l", "o", "o", "k", ".", "c", "o", "n">>,
    domain |-> <<"o", "u", "t", "l", "o", "o", "k", ".", "c", "o", "m">>],
   [typo |-> <<"i", "c", "l", "o", "d", ".", "c", "o", "m">>,
    domain |-> <<"i", "c", "l", "o", "u", "d", ".", "c", "o", "m">>],
   [typo |-> <<"i", "c", "l", "o", "u", "d", ".", "c", "o">>,
    domain |-> <<"i", "c", "l", "o", "u", "d", ".", "c", "o", "m">>]}

\* commonDomains of EmailVerifier.suggestCorrection, in order.
BasicCommonDomains ==
  <<<<"g", "m", "a", "i", "l", ".", "c", "o", "m">>,
    <<"y", "a", "h", "o", "o", ".", "c", "o", "m">>,
    <<"h", "o", "t", "m", "a", "i", "l", ".", "c", "o", "m">>,
    <<"o", "u", "t", "l", "o", "o", "k", ".", "c", "o", "m">>,
    <<"a", "o", "l", ".", "c", "o", "m">>,
    <<"i", "c", "l", "o", "u", "d", ".", "c", "o", "m">>,
    <<"p", "r", "o", "t", "o", "n", "m", "a", "i", "l", ".", "c", "o", "m">>>>

\* corrections of EmailVerifier.suggestCorrection.
BasicCorrections ==
  {[typo |-> <<"g", "m", "a", "l", ".", "c", "o", "m">>,
    domain |-> <<"g", "m", "a", "i", "l", ".", "c", "o", "m">>],
   [typo |-> <<"g", "a", "m", "i", "l", ".", "c", "o", "m">>,
    domain |-> <<"g", "m", "a", "i", "l", ".", "c", "o", "m">>],
   [typo |-> <<"g", "m", "i", "a", "l", ".", "c", "o", "m">>,
    domain |-> <<"g", "m", "a", "i", "l", ".", "c", "o", "m">>],
   [typo |-> <<"g", "m", "a", "i", "l", ".", "c", "o">>,
    domain |-> <<"g", "m", "a", "i", "l", ".", "c", "o", "m">>],
   [typo |-> <<"g", "m", "a", "i", "l", "l", ".", "c", "o", "m">>,
    domain |-> <<"g", "m", "a", "i", "l", ".", "c", "o", "m">>],
   [typo |-> <<"y", "a", "h", "o", "o", "o", ".", "c", "o", "m">>,
    domain |-> <<"y", "a", "h", "o", "o", ".", "c", "o", "m">>],
   [typo |-> <<"y", "a", "h", "o", ".", "c", "o", "m">>,
    domain |-> <<"y", "a", "h", "o", "o", ".", "c", "o", "m">>],
   [typo |-> <<"y", "a", "h", "o", "o", ".", "c", "o">>,
    domain |-> <<"y", "a", "h", "o", "o", ".", "c", "o", "m">>],
   [typo |-> <<"h", "o", "t", "m", "i", "a", "l", ".", "c", "o", "m">>,
    domain |-> <<"h", "o", "t", "m", "a", "i", "l", ".", "c", "o", "m">>],
   [typo |-> <<"h", "o", "t", "m", "a", "l", ".", "c", "o", "m">>,
    domain |-> <<"h", "o", "t", "m", "a", "i", "l", ".", "c", "o", "m">>],
   [typo |-> <<"h", "o", "t", "m", "a", "i", ".", "c", "o", "m">>,
    domain |-> <<"h", "o", "t", "m", "a", "i", "l", ".", "c", "o", "m">>],
   [typo |-> <<"o", "u", "t", "l", "o", "k", ".", "c", "o", "m">>,
    domain |-> <<"o", "u", "t", "l", "o", "o", "k", ".", "c", "o", "m">>],
   [typo |-> <<"o", "u", "t", "o", "o", "k", ".", "c", "o", "m">>,
    domain |-> <<"o", "u", "t", "l", "o", "o", "k", ".", "c", "o", "m">>]}

\* The domains the sample inputs are derived from.
BaseDomains ==
  {<<"g", "m", "a", "i", "l", ".", "c", "o", "m">>,
   <<"m", "a", "i", "l", ".", "c", "o", "m">>,
   <<"y", "a", "h", "o", "o", ".", "c", "o", "m">>}

\* corrections[domain], <<>> standing for undefined.
Correction(corrections, domain) ==
  IF \E c \in corrections : c.typo = domain
    THEN (CHOOSE c \in corrections : c.typo = domain).domain
    ELSE <<>>

\* The loop over Object.entries(commonDomains) from entry k on: it ends at the
\* first entry that has the domain among its variants (no suggestion) or lies
\* within similarityThreshold = 2 of it.
RECURSIVE EnhancedClosest(_, _, _)
EnhancedClosest(username, domain, k) ==
  IF k > Len(EnhancedCommonDomains) THEN <<>>
  ELSE IF domain \in EnhancedCommonDomains[k].variants THEN <<>>
  ELSE IF LevenshteinDistance(domain, EnhancedCommonDomains[k].correctDomain) <= 2
    THEN <<username, EnhancedCommonDomains[k].correctDomain>>
  ELSE EnhancedClosest(username, domain, k + 1)

\* EnhancedEmailVerifier.suggestCorrection: what it leaves in
\* result.suggestion (<<>> standing for null).
SuggestEnhanced(username, domain) ==
  IF Correction(EnhancedCorrections, domain) # <<>>
    THEN <<username, Correction(EnhancedCorrections, domain)>>
    ELSE EnhancedClosest(username, domain, 1)

\* The loop over commonDomains from entry k on: the first domain at distance
\* exactly 1.
RECURSIVE BasicClosest(_, _, _)
BasicClosest(username, domain, k) ==
  IF k > Len(BasicCommonDomains) THEN <<>>
  ELSE IF LevenshteinDistance(domain, BasicCommonDomains[k]) = 1
    THEN <<username, BasicCommonDomains[k]>>
  ELSE BasicClosest(username, domain, k + 1)

\* EmailVerifier.suggestCorrection: what it returns (<<>> standing for null).
SuggestBasic(username, domain) ==
  IF Correction(BasicCorrections, domain) # <<>>
    THEN <<username, Correction(BasicCorrections, domain)>>
    ELSE BasicClosest(username, domain, 1)

DeleteAt(s, p) == SubSeq(s, 1, p - 1) \o SubSeq(s, p + 1, Len(s))

SubstituteAt(s, p, c) == [s EXCEPT ![p] = c]

\* The domains one typing slip away from those of domains: a character
\* dropped, or an "x" typed in its place.
OneSlip(domains) ==
  domains
    \cup {DeleteAt(d, p) : <<d, p>> \in {x \in domains \X (1..14) : x[2] <= Len(x[1])}}
    \cup {SubstituteAt(d, p, "x") :
            <<d, p>> \in {x \in domains \X (1..14) : x[2] <= Len(x[1])}}

RECURSIVE Slips(_, _)
Slips(domains, n) == IF n = 0 THEN domains ELSE Slips(OneSlip(domains), n - 1)

\* Sample input domains: up to MaxEdits slips away from a base domain.
SampleDomains == Slips(BaseDomains, MaxEdits)

\* A call of suggestCorrection of either verifier runs to its end.
SuggestEnhancedCall ==
  /\ "verifier" \in DOMAIN f_input
  /\ f_input.verifier = "enhanced"
  /\ FnReturn(SuggestEnhanced(f_input.username, f_input.domain))

SuggestBasicCall ==
  /\ "verifier" \in DOMAIN f_input
  /\ f_input.verifier = "basic"
  /\ FnReturn(SuggestBasic(f_input.username, f_input.domain))

SuggestNext ==
  \/ SuggestEnhancedCall
  \/ SuggestBasicCall

\* freeProviders of EnhancedEmailVerifier.isFreeEmailProvider
EnhancedFreeProviders ==
  {<<"g", "m", "a", "i", "l", ".", "c", "o", "m">>,
   <<"g", "o", "o", "g", "l", "e", "m", "a", "i", "l", ".", "c", "o", "m">>,
   <<"y", "a", "h", "o", "o", ".", "c", "o", "m">>,
   <<"y", "a", "h", "o", "o", ".", "c", "o", ".", "u", "k">>,
   <<"y", "a", "h", "o", "o", ".", "c", "a">>,
   <<"h", "o", "t", "m", "a", "i", "l", ".", "c", "o", "m">>,
   <<"o", "u", "t", "l", "o", "o", "k", ".", "c", "o", "m">>,
   <<"l", "i", "v", "e", ".", "c", "o", "m">>,
   <<"a", "o", "l", ".", "c", "o", "m">>,
   <<"i", "c", "l", "o", "u", "d", ".", "c", "o", "m">>,
   <<"m", "e", ".", "c", "o", "m">>,
   <<"m", "a", "c", ".", "c", "o", "m">>,
   <<"p", "r", "o", "t", "o", "n", "m", "a", "i", "l", ".", "c", "o", "m">>,
   <<"p", "m", ".", "m", "e">>,
   <<"m", "a", "i", "l", ".", "c", "o", "m">>,
   <<"z", "o", "h", "o", ".", "c", "o", "m">>,
   <<"y", "a", "n", "d", "e", "x", ".", "c", "o", "m">>,
   <<"g", "m", "x", ".", "c", "o", "m">>,
   <<"g", "m", "x", ".", "d", "e">>,
   <<"g", "m", "x", ".", "n", "e", "t">>,
   <<"t", "u", "t", "a", "n", "o", "t", "a", ".", "c", "o", "m">>,
   <<"t", "u", "t", "a", "n", "o", "t", "a", ".", "d", "e">>,
   <<"t", "u", "t", "a", "m", "a", "i", "l", ".", "c", "o", "m">>,
   <<"t", "u", "t", "a", ".", "i", "o">>,
   <<"m", "a", "i", "l", "i", "n", "a", "t", "o", "r", ".", "c", "o", "m">>,
   <<"m", "a", "i", "l", ".", "r", "u">>,
   <<"r", "a", "m", "b", "l", "e", "r", ".", "r", "u">>,
   <<"i", "n", "b", "o", "x", ".", "c", "o", "m">>,
   <<"i", "n", "b", "o", "x", ".", "r", "u">>}

\* freeProviders of EmailVerifier.isFreeEmailProvider
BasicFreeProviders ==
  {<<"g", "m", "a", "i", "l", ".", "c", "o", "m">>,
   <<"y", "a", "h", "o", "o", ".", "c", "o", "m">>,
   <<"h", "o", "t", "m", "a", "i", "l", ".", "c", "o", "m">>,
   <<"o", "u", "t", "l", "o", "o", "k", ".", "c", "o", "m">>,
   <<"a", "o", "l", ".", "c", "o", "m">>,
   <<"i", "c", "l", "o", "u", "d", ".", "c", "o", "m">>,
   <<"p", "r", "o", "t", "o", "n", "m", "a", "i", "l", ".", "c", "o", "m">>,
   <<"m", "a", "i", "l", ".", "c", "o", "m">>,
   <<"z", "o", "h", "o", ".", "c", "o", "m">>,
   <<"y", "a", "n", "d", "e", "x", ".", "c", "o", "m">>,
   <<"g", "m", "x", ".", "c", "o", "m">>,
   <<"l", "i", "v", "e", ".", "c", "o", "m">>}

\* legacyDomains of EnhancedEmailVerifier.categorizeDomain
EnhancedLegacyDomains ==
  {<<"i", "b", "m", ".", "c", "o", "m">>,
   <<"m", "i", "c", "r", "o", "s", "o", "f", "t", ".", "c", "o", "m">>,
   <<"a", "p", "p", "l", "e", ".", "c", "o", "m">>,
   <<"a", "m", "a", "z", "o", "n", ".", "c", "o", "m">>,
   <<"g", "o", "o", "g", "l", "e", ".", "c", "o", "m">>,
   <<"a", "o", "l", ".", "c", "o", "m">>,
   <<"y", "a", "h", "o", "o", ".", "c", "o", "m">>,
   <<"h", "o", "t", "m", "a", "i", "l", ".", "c", "o", "m">>,
   <<"o", "r", "a", "c", "l", "e", ".", "c", "o", "m">>,
   <<"i", "n", "t", "e", "l", ".", "c", "o", "m">>,
   <<"c", "i", "s", "c", "o", ".", "c", "o", "m">>,
   <<"h", "p", ".", "c", "o", "m">>,
   <<"d", "e", "l", "l", ".", "c", "o", "m">>,
   <<"s", "a", "p", ".", "c", "o", "m">>}

\* establishedDomains of EnhancedEmailVerifier.categorizeDomain
EnhancedEstablishedDomains ==
  {<<"f", "a", "c", "e", "b", "o", "o", "k", ".", "c", "o", "m">>,
   <<"t", "w", "i", "t", "t", "e", "r", ".", "c", "o", "m">>,
   <<"l", "i", "n", "k", "e", "d", "i", "n", ".", "c", "o", "m">>,
   <<"i", "n", "s", "t", "a", "g", "r", "a", "m", ".", "c", "o", "m">>,
   <<"s", "a", "l", "e", "s", "f", "o", "r", "c", "e", ".", "c", "o", "m">>,
   <<"a", "d", "o", "b", "e", ".", "c", "o", "m">>,
   <<"d", "r", "o", "p", "b", "o", "x", ".", "c", "o", "m">>,
   <<"s", "l", "a", "c", "k", ".", "c", "o", "m">>,
   <<"s", "p", "o", "t", "i", "f", "y", ".", "c", "o", "m">>,
   <<"n", "e", "t", "f", "l", "i", "x", ".", "c", "o", "m">>,
   <<"u", "b", "e", "r", ".", "c", "o", "m">>,
   <<"a", "i", "r", "b", "n", "b", ".", "c", "o", "m">>}

\* oldDomains of EmailVerifier.categorizeDomain
BasicOldDomains ==
  {<<"i", "b", "m", ".", "c", "o", "m">>,
   <<"m", "i", "c", "r", "o", "s", "o", "f", "t", ".", "c", "o", "m">>,
   <<"a", "p", "p", "l", "e", ".", "c", "o", "m">>,
   <<"a", "m", "a", "z", "o", "n", ".", "c", "o", "m">>,
   <<"g", "o", "o", "g", "l", "e", ".", "c", "o", "m">>,
   <<"a", "o", "l", ".", "c", "o", "m">>,
   <<"y", "a", "h", "o", "o", ".", "c", "o", "m">>,
   <<"h", "o", "t", "m", "a", "i", "l", ".", "c", "o", "m">>}

\* establishedDomains of EmailVerifier.categorizeDomain
BasicEstablishedDomains ==
  {<<"f", "a", "c", "e", "b", "o", "o", "k", ".", "c", "o", "m">>,
   <<"t", "w", "i", "t", "t", "e", "r", ".", "c", "o", "m">>,
   <<"l", "i", "n", "k", "e", "d", "i", "n", ".", "c", "o", "m">>,
   <<"s", "a", "l", "e", "s", "f", "o", "r", "c", "e", ".", "c", "o", "m">>,
   <<"a", "d", "o", "b", "e", ".", "c", "o", "m">>,
   <<"d", "r", "o", "p", "b", "o", "x", ".", "c", "o", "m">>}

\* The alternatives of the prefix pattern of extractNameFromEmail
NamePrefixes ==
  {<<"i", "n", "f", "o">>,
   <<"c", "o", "n", "t", "a", "c", "t">>,
   <<"s", "u", "p", "p", "o", "r", "t">>,
   <<"a", "d", "m", "i", "n">>,
   <<"s", "a", "l", "e", "s">>,
   <<"m", "a", "r", "k", "e", "t", "i", "n", "g">>,
   <<"h", "e", "l", "p">>,
   <<"s", "e", "r", "v", "i", "c", "e">>,
   <<"n", "o", "-", "r", "e", "p", "l", "y">>,
   <<"n", "o", "r", "e", "p", "l", "y">>,
   <<"m", "a", "i", "l">>}

\* countryTlds of EnhancedEmailVerifier.guessCompanyFromDomain
CountryTlds ==
  {<<"c", "o", ".", "u", "k">>,
   <<"c", "o", "m", ".", "a", "u">>,
   <<"c", "o", ".", "n", "z">>,
   <<"c", "o", ".", "j", "p">>,
   <<"c", "o", ".", "z", "a">>,
   <<"c", "o", "m", ".", "b", "r">>}

\* Sample local parts of enrich
EnrichUsernames ==
  {<<"j", "o", "h", "n", ".", "d", "o", "e">>,
   <<"i", "n", "f", "o">>,
   <<"c", "o", "n", "t", "a", "c", "t", ".", "j", "a", "n", "e">>,
   <<"m", "a", "i", "l", ".", "b", "o", "b", "4", "2">>,
   <<"n", "o", "-", "r", "e", "p", "l", "y">>,
   <<"J", "_", "S", "m", "i", "t", "h", "-", "L", "e", "e">>,
   <<"2", "0", "2", "4">>}

\* Sample domains of enrich
EnrichDomains ==
  {<<"g", "m", "a", "i", "l", ".", "c", "o", "m">>,
   <<"G", "m", "a", "i", "l", ".", "c", "o", "m">>,
   <<"g", "m", "x", ".", "n", "e", "t">>,
   <<"a", "c", "m", "e", "-", "i", "n", "c", ".", "c", "o", "m">>,
   <<"a", "c", "m", "e", ".", "c", "o", ".", "u", "k">>,
   <<"m", "i", "t", ".", "e", "d", "u">>,
   <<"i", "b", "m", ".", "c", "o", "m">>,
   <<"s", "l", "a", "c", "k", ".", "c", "o", "m">>,
   <<"w", "3", ".", "o", "r", "g">>}

\* null, and a value that is not null, of a property that may hold null.
Null == <<>>

NotNull(value) == <<value>>

\* String.prototype.toLowerCase, character by character.
ToLowerChars(s) == [i \in 1..Len(s) |-> FoldCase(s[i])]

UpperCase(c) ==
  IF \E i \in 1..26 : LowerCaseLetters[i] = c
    THEN UpperCaseLetters[CHOOSE i \in 1..26 : LowerCaseLetters[i] = c]
    ELSE c

\* str.charAt(0).toUpperCase() + str.slice(1)
CapitalizeFirstLetter(str) ==
  IF Len(str) = 0 THEN <<>> ELSE <<UpperCase(str[1])>> \o Tail(str)

\* String.prototype.split on a one-character separator.
RECURSIVE SplitOn(_, _)
SplitOn(s, separator) ==
  IF \A i \in 1..Len(s) : s[i] # separator THEN <<s>>
  ELSE LET p == CHOOSE i \in 1..Len(s) :
                  s[i] = separator /\ \A k \in 1..(i - 1) : s[k] # separator
       IN <<SubSeq(s, 1, p - 1)>> \o SplitOn(SubSeq(s, p + 1, Len(s)), separator)

\* Array.prototype.join of strings held as character sequences.
RECURSIVE JoinChars(_, _)
JoinChars(parts, separator) ==
  IF Len(parts) = 0 THEN <<>>
  ELSE IF Len(parts) = 1 THEN parts[1]
  ELSE parts[1] \o separator \o JoinChars(Tail(parts), separator)

\* String.prototype.endsWith
EndsWith(s, suffix) ==
  Len(s) >= Len(suffix) /\ SubSeq(s, Len(s) - Len(suffix) + 1, Len(s)) = suffix

\* str.replace(/[...]/g, " ") for the characters of class.
ReplaceWithSpace(s, class) ==
  [i \in 1..Len(s) |-> IF s[i] \in class THEN " " ELSE s[i]]

\* str.replace(/\d+$/, "")
RECURSIVE StripTrailingDigits(_)
StripTrailingDigits(s) ==
  IF Len(s) > 0 /\ s[Len(s)] \in DigitChars
    THEN StripTrailingDigits(SubSeq(s, 1, Len(s) - 1))
    ELSE s

\* String.prototype.trim, blanks being the only white space of the samples.
RECURSIVE Trim(_)
Trim(s) ==
  IF Len(s) > 0 /\ s[1] = " " THEN Trim(Tail(s))
  ELSE IF Len(s) > 0 /\ s[Len(s)] = " " THEN Trim(SubSeq(s, 1, Len(s) - 1))
  ELSE s

\* username.replace(/^(info|contact|...|mail)\.?/i, "")
StripPrefix(username) ==
  LET matches == {p \in NamePrefixes :
                    /\ Len(username) >= Len(p)
                    /\ ToLowerChars(SubSeq(username, 1, Len(p))) = p}
  IN IF matches = {} THEN username
     ELSE LET p == CHOOSE q \in matches : TRUE
              rest == SubSeq(username, Len(p) + 1, Len(username))
          IN IF Len(rest) > 0 /\ rest[1] = "." THEN Tail(rest) ELSE rest

\* extractNameFromEmail of either verifier: the enhanced one capitalizes
\* every part, the basic one leaves the parts as they are.
ExtractNameFromEmail(v, username) ==
  LET cleanUsername ==
        Trim(ReplaceWithSpace(StripTrailingDigits(StripPrefix(username)),
                              {".", "_", "-"}))
      parts == SplitOn(cleanUsername, " ")
      shown == [i \in 1..Len(parts) |->
                  IF v = "enhanced" THEN CapitalizeFirstLetter(parts[i])
                  ELSE parts[i]]
  IN IF Len(cleanUsername) = 0
       THEN [full |-> Null, first |-> Null, last |-> Null]
     ELSE IF Len(parts) = 1
       THEN [full |-> NotNull(shown[1]), first |-> NotNull(shown[1]),
             last |-> Null]
     ELSE [full |-> NotNull(IF v = "enhanced" THEN JoinChars(shown, <<" ">>)
                            ELSE cleanUsername),
           first |-> NotNull(shown[1]),
           last |-> NotNull(JoinChars(Tail(shown), <<" ">>))]

\* isFreeEmailProvider of either verifier: only the enhanced one lowers the
\* case of the domain.
IsFreeEmailProvider(v, domain) ==
  IF v = "enhanced" THEN ToLowerChars(domain) \in EnhancedFreeProviders
  ELSE domain \in BasicFreeProviders

\* Each word of a name with a capital first letter.
CapitalizeWords(name) ==
  LET words == SplitOn(name, " ")
  IN JoinChars([i \in 1..Len(words) |-> CapitalizeFirstLetter(words[i])],
               <<" ">>)

\* EnhancedEmailVerifier.formatCompanyName
FormatCompanyName(domainPart) ==
  IF Len(domainPart) = 0 THEN Null
  ELSE NotNull(CapitalizeWords(ReplaceWithSpace(domainPart, {"-", "_"})))

\* guessCompanyFromDomain that guesses for a free provider too.
GuessCompanyOfAnyDomain(v, domain) ==
  NotNull(CapitalizeWords(ReplaceWithSpace(SplitOn(domain, ".")[1], {"-"})))

\* guessCompanyFromDomain of either verifier.
GuessCompanyFromDomain(v, domain) ==
  LET domainParts == SplitOn(domain, ".")
      n == Len(domainParts)
  IN IF IsFreeEmailProvider(v, domain) THEN Null
     ELSE IF v = "basic"
       THEN NotNull(CapitalizeWords(ReplaceWithSpace(domainParts[1], {"-"})))
     ELSE IF n < 2 THEN Null
     ELSE IF /\ (domainParts[n - 1] \o <<".">> \o domainParts[n]) \in CountryTlds
             /\ n > 2
       THEN FormatCompanyName(domainParts[n - 2])
     ELSE FormatCompanyName(domainParts[n - 1])

\* categorizeDomain of either verifier.
CategorizeDomain(v, domain) ==
  LET dot(tld) == <<".">> \o tld
  IN IF v = "enhanced" /\ domain \in EnhancedLegacyDomains THEN "legacy"
     ELSE IF v = "basic" /\ domain \in BasicOldDomains THEN "legacy"
     ELSE IF v = "enhanced" /\ domain \in EnhancedEstablishedDomains
       THEN "established"
     ELSE IF v = "basic" /\ domain \in BasicEstablishedDomains
       THEN "established"
     ELSE IF \/ EndsWith(domain, dot(<<"e", "d", "u">>))
             \/ EndsWith(domain, dot(<<"g", "o", "v">>))
             \/ EndsWith(domain, dot(<<"m", "i", "l">>))
       THEN "institutional"
     ELSE IF /\ v = "enhanced"
             /\ \/ EndsWith(domain, dot(<<"o", "r", "g">>))
                \/ EndsWith(domain, dot(<<"n", "e", "t">>))
       THEN "organization"
     ELSE "standard"

\* What verify may return to enrich for an address: the result object with
\* its signals, valid only with MX records, or the object of verify's catch.
\* isRoleAccount stays false, the enhanced verifier having no check that
\* sets it.
VerificationResults(v, address) ==
  {[email |-> address, isValid |-> FALSE,
    errors |-> <<"Verification process failed">>]}
    \cup (IF v = "enhanced"
            THEN {[email |-> address, isValid |-> valid, hasMx |-> mx,
                   isCatchAll |-> catchAll, isRoleAccount |-> FALSE,
                   errors |-> <<>>] :
                    <<valid, mx, catchAll>> \in
                      {b \in BOOLEAN \X BOOLEAN \X BOOLEAN : b[1] => b[2]}}
            ELSE {[email |-> address, isValid |-> valid, hasMx |-> mx,
                   errors |-> <<>>] :
                    <<valid, mx>> \in {b \in BOOLEAN \X BOOLEAN : b[1] => b[2]}})

\* The enrichment object of enrich for a valid result.
Enrichment(v, username, rawDomain, verification) ==
  LET domain == IF v = "basic" THEN ToLowerChars(rawDomain) ELSE rawDomain
      common == [domain |-> domain,
                 possibleName |-> ExtractNameFromEmail(v, username),
                 possibleCompany |-> GuessCompanyFromDomain(v, domain),
                 isFreeProvider |-> IsFreeEmailProvider(v, domain),
                 domainCategory |-> CategorizeDomain(v, domain)]
  IN IF v = "basic" THEN common
     ELSE [k \in DOMAIN common \cup {"metadata"} |->
             IF k = "metadata"
               THEN [isRoleAccount |-> verification.isRoleAccount,
                     isCatchAll |-> verification.isCatchAll,
                     hasValidMx |-> verification.hasMx]
               ELSE common[k]]

\* { ...verificationResult, enrichment }
WithEnrichment(verification, enrichment) ==
  [k \in DOMAIN verification \cup {"enrichment"} |->
     IF k = "enrichment" THEN enrichment ELSE verification[k]]

\* What enrich returns once verify has returned verification.
Enrich(v, username, rawDomain, verification) ==
  IF ~verification.isValid THEN WithEnrichment(verification, Null)
  ELSE WithEnrichment(verification,
                      NotNull(Enrichment(v, username, rawDomain, verification)))

\* enrich awaits verify, which returns one of its results.
EnrichVerify ==
  /\ f_pc = "called"
  /\ "enricher" \in DOMAIN f_input
  /\ \E r \in VerificationResults(f_input.enricher,
                                  <<f_input.username, f_input.domain>>) :
       f_output' = [verifyCalls |-> 1, verification |-> r]
  /\ f_pc' = "verified"
  /\ UNCHANGED f_input
  /\ FnFrame

\* enrich returns the result with its enrichment.
EnrichReturn ==
  /\ f_pc = "verified"
  /\ "enricher" \in DOMAIN f_input
  /\ f_output' = f_output @@
                 [value |-> Enrich(f_input.enricher, f_input.username,
                                   f_input.domain, f_output.verification)]
  /\ f_pc' = "returned"
  /\ UNCHANGED f_input
  /\ FnFrame

EnrichNext ==
  \/ EnrichVerify
  \/ EnrichReturn

\* What a check of AdvancedEmailVerifier leaves in a property it may never
\* write: true, false, or nothing (undefined).
Tri == {"true", "false", "undefined"}

\* tryVrfyCommand and checkErrorPatterns return the same object every time.
VrfyResult == [supported |-> FALSE, result |-> "null"]

\* Confidence of checkErrorPatterns, in tenths.
ErrorPatterns == [patterns |-> <<>>, confidence |-> 0]

\* determineMailboxExistence: 0.7 is 7 tenths.
DetermineMailboxExistence(vrfyResult, errorPatterns, catchAllResult) ==
  IF vrfyResult.supported THEN vrfyResult.result
  ELSE IF errorPatterns.confidence > 7 THEN "true"
  ELSE "false"

\* determineValidity: every basic check is === true.
DetermineValidity(r) ==
  /\ r.formatValid
  /\ r.hasMx
  /\ ~r.isDisposable
  /\ r.details.security.spf = "true"
  /\ r.details.security.dkim = "true"
  /\ r.details.security.dmarc = "true"

\* determineLiveness: every liveness check is === true.
DetermineLiveness(r) ==
  /\ r.smtpCheck
  /\ r.details.mailbox.exists = "true"
  /\ ~r.isCatchAll
  /\ ~r.isRoleAccount
  /\ ~r.isSpamTrap

\* The signals of a result object of AdvancedEmailVerifier.verify ahead of
\* checkMailboxExistence: an SMTP probe and a catch-all probe need an MX
\* host, and details.mailbox.exists is not written yet.
AdvancedResults ==
  {r \in [formatValid : BOOLEAN, hasMx : BOOLEAN, isDisposable : BOOLEAN,
          isCatchAll : BOOLEAN, isRoleAccount : BOOLEAN, isSpamTrap : BOOLEAN,
          smtpCheck : BOOLEAN, isValid : {FALSE}, isLive : {FALSE},
          details : [security : [spf : Tri, dkim : Tri, dmarc : Tri],
                     mailbox : [exists : {"undefined"}]]] :
     /\ r.smtpCheck => r.hasMx
     /\ r.isCatchAll => r.hasMx}

\* verify from checkMailboxExistence on: with checkMailbox the existence of
\* the mailbox is determined (checkCatchAllDomain, which probes once more,
\* leaves isCatchAll as the signals hold it).
CheckMailboxExistence ==
  /\ f_pc = "called"
  /\ "checkMailbox" \in DOMAIN f_input
  /\ f_output' =
       IF f_input.checkMailbox
         THEN [f_input.result EXCEPT !.details.mailbox.exists =
                 DetermineMailboxExistence(VrfyResult, ErrorPatterns,
                                           f_input.result.isCatchAll)]
         ELSE f_input.result
  /\ f_pc' = "checked"
  /\ UNCHANGED f_input
  /\ FnFrame

\* The end of verify: isValid and isLive are determined and the result is
\* returned.
DetermineFinal ==
  /\ f_pc = "checked"
  /\ "checkMailbox" \in DOMAIN f_input
  /\ f_output' = [f_output EXCEPT !.isValid = DetermineValidity(f_output),
                                  !.isLive = DetermineLiveness(f_output)]
  /\ f_pc' = "returned"
  /\ UNCHANGED f_input
  /\ FnFrame

AdvancedNext ==
  \/ CheckMailboxExistence
  \/ DetermineFinal

\* The result objects the bulk worker stores in a VerificationLog row: what
\* verify returned (its result object, or the object of its catch), or the
\* object of the worker's own catch.
LoggedResults ==
  {[email |-> "user@example.com", isValid |-> FALSE,
    errors |-> <<"Verification process failed">>],
   [email |-> "user@example.com", isValid |-> FALSE,
    errors |-> <<"error.message">>, timestamp |-> "now"]}
    \cup
  {[email |-> "user@example.com", isValid |-> b[1], formatValid |-> b[2],
    hasMx |-> b[3], isDisposable |-> b[4], smtpCheck |-> b[5],
    isRoleAccount |-> FALSE, isCatchAll |-> b[6], isSpamTrap |-> b[7],
    suggestion |-> "null", errors |-> <<>>] :
     b \in [1..7 -> BOOLEAN]}

\* The boolean columns of csvHeader, in order.
CsvBooleanColumns ==
  <<"Valid", "Format Valid", "MX Records", "Disposable", "SMTP Check",
    "Role Account", "Catch All", "Spam Trap">>

\* `${value}` of a template literal, for a boolean or a missing property.
Interpolate(logged, property) ==
  IF property \notin DOMAIN logged THEN "undefined"
  ELSE IF logged[property] THEN "true"
  ELSE "false"

\* `${value || false}`
InterpolateOrFalse(logged, property) ==
  IF property \in DOMAIN logged /\ logged[property] THEN "true" ELSE "false"

\* The boolean columns of one CSV row of the download.
CsvBooleans(logged) ==
  <<Interpolate(logged, "isValid"),
    Interpolate(logged, "formatValid"),
    Interpolate(logged, "hasMx"),
    Interpolate(logged, "isDisposable"),
    Interpolate(logged, "smtpCheck"),
    InterpolateOrFalse(logged, "isRoleAccount"),
    InterpolateOrFalse(logged, "isCatchAll"),
    InterpolateOrFalse(logged, "isSpamTrap")>>

\* csvRows' callback on one log.
CsvRowCall ==
  /\ "log" \in DOMAIN f_input
  /\ FnReturn(CsvBooleans(f_input.log.result))

CsvNext == CsvRowCall

(***************************************************************************)
(* Bulk submission: POST /bulk-verify                                      *)
(***************************************************************************)

\* Requests of one owner that are in flight at once in the model.
MaxSubmitters == 2

\* The monthly credits of the business plan (25000), scaled down.
PlanLimit == 3

\* The longest list of one request in the model; the per-request limits of
\* the plans (1000, 10000) are far above it.
MaxBatchSize == 2

Submitters == 1..MaxSubmitters

\* Infinity, as far as the comparison with emails.length can tell: above
\* the 10,000 emails that the longest list passing the checks before it has.
Infinity == 10001

\* const remainingCredits = user.role === "enterprise" ? Infinity
\*   : (user.role === "business" ? 25000 : 5000) - (usage ? usage.count : 0)
\* Only business and enterprise owners pass the role check before it.
RemainingCredits(role, usage) ==
  IF role = "enterprise"
  THEN Infinity
  ELSE PlanLimit - (IF usage = -1 THEN 0 ELSE usage)

\* The roles that pass the check of the role.
BulkRoles == {"business", "enterprise"}

\* No request is made.
SubmitIdle ==
  /\ sub_pc = [p \in Submitters |-> "off"]
  /\ sub_size = [p \in Submitters |-> 1]
  /\ sub_usage = [p \in Submitters |-> -1]
  /\ sub_resp = [p \in Submitters |-> 0]
  /\ sub_record = [p \in Submitters |-> FALSE]
  /\ sub_item = [p \in Submitters |-> FALSE]
  /\ ownerRole = "business"
  /\ usageCount = -1
  /\ h_recorded = 0

\* Requests of a business owner, in a month of which any part of the credits
\* is already used.
SubmitInit ==
  /\ sub_pc = [p \in Submitters |-> "idle"]
  /\ sub_size \in [Submitters -> 1..MaxBatchSize]
  /\ sub_usage = [p \in Submitters |-> -1]
  /\ sub_resp = [p \in Submitters |-> 0]
  /\ sub_record = [p \in Submitters |-> FALSE]
  /\ sub_item = [p \in Submitters |-> FALSE]
  /\ ownerRole = "business"
  /\ usageCount \in -1..PlanLimit
  /\ h_recorded = (IF usageCount = -1 THEN 0 ELSE usageCount)

\* res.status(code).json(...): the handler is over.
Respond(p, code) ==
  /\ sub_resp' = [sub_resp EXCEPT ![p] = code]
  /\ sub_pc' = [sub_pc EXCEPT ![p] = "responded"]

\* The request passed the validation of its body, User.findById and the
\* checks of the role and of the list's length; Usage.findOne is awaited.
SubmitCall(p) ==
  /\ sub_pc[p] = "idle"
  /\ sub_pc' = [sub_pc EXCEPT ![p] = "findUsage"]
  /\ UNCHANGED <<sub_size, sub_usage, sub_resp, sub_record, sub_item,
                 usageCount, h_recorded>>
  /\ UNCHANGED batchVars
  /\ SubFrame

\* let usage = await Usage.findOne(...), then the check of the credits.
FindUsage(p) ==
  /\ sub_pc[p] = "findUsage"
  /\ sub_usage' = [sub_usage EXCEPT ![p] = usageCount]
  /\ IF sub_size[p] > RemainingCredits(ownerRole, usageCount)
     THEN Respond(p, 403)
     ELSE /\ sub_pc' = [sub_pc EXCEPT ![p] = "save"]
          /\ UNCHANGED sub_resp
  /\ UNCHANGED <<sub_size, sub_record, sub_item, usageCount, h_recorded>>
  /\ UNCHANGED batchVars
  /\ SubFrame

\* await batchJob.save(); a rejection goes to the handler's catch.
SaveRecord(p) ==
  /\ sub_pc[p] = "save"
  /\ \/ /\ sub_record' = [sub_record EXCEPT ![p] = TRUE]
        /\ sub_pc' = [sub_pc EXCEPT ![p] = "enqueue"]
        /\ UNCHANGED sub_resp
     \/ /\ Respond(p, 500)
        /\ UNCHANGED sub_record
  /\ UNCHANGED <<sub_size, sub_usage, sub_item, usageCount, h_recorded>>
  /\ UNCHANGED batchVars
  /\ SubFrame

\* await bulkVerificationQueue.add(...); a rejection goes to the handler's
\* catch, which only responds.  The item of request 1 is the one the bulk
\* worker of the model processes.
Enqueue(p) ==
  /\ sub_pc[p] = "enqueue"
  /\ \/ /\ sub_item' = [sub_item EXCEPT ![p] = TRUE]
        /\ sub_pc' = [sub_pc EXCEPT ![p] = "update"]
        /\ b_pc' = IF p = 1 /\ b_pc = "unsubmitted" THEN "waiting" ELSE b_pc
        /\ UNCHANGED sub_resp
     \/ /\ Respond(p, 500)
        /\ UNCHANGED <<sub_item, b_pc>>
  /\ UNCHANGED <<sub_size, sub_usage, sub_record, usageCount, h_recorded>>
  /\ UNCHANGED <<batchJob, emails, notifyUser, b_idx, processed, validCount,
                 invalidCount, attemptsMade, b_logRows, b_faults, b_notified,
                 h_jobFault, b_cancelledAt>>
  /\ SubFrame

\* if (usage) { usage.count += emails.length; await usage.save() } else
\* { await Usage.create({... count: emails.length}) }: save writes the count
\* computed from the document the handler read; create is rejected by the
\* unique index on user, month and year when the document exists by now.
UpdateUsage(p) ==
  /\ sub_pc[p] = "update"
  /\ IF sub_usage[p] # -1
     THEN /\ usageCount' = sub_usage[p] + sub_size[p]
          /\ h_recorded' = h_recorded + sub_size[p]
          /\ Respond(p, 200)
     ELSE IF usageCount = -1
          THEN /\ usageCount' = sub_size[p]
               /\ h_recorded' = h_recorded + sub_size[p]
               /\ Respond(p, 200)
          ELSE /\ Respond(p, 500)
               /\ UNCHANGED <<usageCount, h_recorded>>
  /\ UNCHANGED <<sub_size, sub_usage, sub_record, sub_item>>
  /\ UNCHANGED batchVars
  /\ SubFrame

SubmitNext ==
  \E p \in Submitters :
    \/ SubmitCall(p)
    \/ FindUsage(p)
    \/ SaveRecord(p)
    \/ Enqueue(p)
    \/ UpdateUsage(p)

(***************************************************************************)
(* Reading a batch: GET /bulk-verify/:batchId and .../download             *)
(***************************************************************************)

BatchIds == {"b1", "b2"}
Users == {"u1", "u2"}
Statuses == {"queued", "processing", "completed", "failed"}

\* The BatchJob collections of the model: batchId is unique.
BatchStores ==
  {s \in SUBSET [batchId : BatchIds, user : Users, status : Statuses] :
     \A r1 \in s, r2 \in s : r1.batchId = r2.batchId => r1 = r2}

\* The query with no filter on the owner.
FindOneOfAnyUser(store, batchId, user) ==
  IF \E r \in store : r.batchId = batchId
  THEN NotNull(CHOOSE r \in store : r.batchId = batchId)
  ELSE Null

\* BatchJob.findOne({batchId, user: req.user.id})
FindOne(store, batchId, user) ==
  IF \E r \in store : r.batchId = batchId /\ r.user = user
  THEN NotNull(CHOOSE r \in store : r.batchId = batchId /\ r.user = user)
  ELSE Null

\* res.status(code).json({success, message, data})
Response(code, message, data) ==
  [code |-> code, message |-> message, data |-> data]

NotFound == Response(404, "Batch job not found", <<>>)

\* The status route: the record's fields, for the record findOne returned.
GetBatchStatus(store, batchId, user) ==
  LET batch == FindOne(store, batchId, user)
  IN IF batch = Null
     THEN NotFound
     ELSE Response(200, "", <<batch[1].batchId, batch[1].status>>)

\* The download route: the logs VerificationLog.find({batchId, user}) yields,
\* for a completed record findOne returned.
DownloadBatch(store, batchId, user) ==
  LET batch == FindOne(store, batchId, user)
  IN IF batch = Null
     THEN NotFound
     ELSE IF batch[1].status # "completed"
          THEN Response(400, "Batch job is not completed yet", <<>>)
          ELSE Response(200, "", <<batch[1].batchId, "logs", user>>)

\* One request to either route answers.
BatchReadCall ==
  /\ "route" \in DOMAIN f_input
  /\ FnReturn(IF f_input.route = "status"
              THEN GetBatchStatus(f_input.store, f_input.batchId, f_input.user)
              ELSE DownloadBatch(f_input.store, f_input.batchId, f_input.user))

\* The catch of either route: a query that rejects.
BatchReadFails ==
  /\ "route" \in DOMAIN f_input
  /\ FnReturn(Response(500,
                       IF f_input.route = "status"
                       THEN "Server error retrieving batch status"
                       ELSE "Server error downloading batch results",
                       <<>>))

BatchReadNext == BatchReadCall \/ BatchReadFails

(***************************************************************************)
(* Specifications                                                          *)
(***************************************************************************)

\* One caller: the calls follow one another.
GovInitSeq ==
  /\ GovInit!2 /\ GovInit!3 /\ GovInit!4 /\ GovInit!5 /\ GovInit!6
  /\ GovInit!7 /\ GovInit!8 /\ GovInit!9 /\ GovInit!10 /\ GovInit!11
  /\ GovInit!12 /\ GovInit!13 /\ GovInit!14 /\ GovInit!15
  /\ GovInit!16 /\ GovInit!17 /\ GovInit!18
  /\ g_pc = [p \in Callers |-> IF p = 1 THEN "idle" ELSE "off"]

\* The caller of verify: how it chooses its calls and how many it makes.
CallerInit(profile, calls) ==
  /\ callerProfile = profile
  /\ callsLeft = calls

\* No verification result is cached yet.
ColdCache == verifyCache = EmptyVerifyCache

\* No verify runs and none will.
VerifyIdle ==
  VerifyInit /\ CallerInit("any", 0) /\ ColdCache /\ FnIdle /\ SubmitIdle

InitSmtp == SmtpInit /\ GovInit /\ BatchIdle /\ VerifyIdle

SpecSmtp == InitSmtp /\ [][SmtpNext]_vars

InitGov == SmtpInit /\ GovInit /\ BatchIdle /\ VerifyIdle

SpecGov == InitGov /\ [][GovNext]_vars

InitGovSeq == SmtpInit /\ GovInitSeq /\ BatchIdle /\ VerifyIdle

SpecGovSeq == InitGovSeq /\ [][GovNext]_vars

InitBatch == SmtpInit /\ GovInit /\ BatchInit /\ VerifyIdle

SpecBatch == InitBatch /\ [][BatchNext]_vars

\* The bulk worker with an administrator who may cancel the batch.
BatchCancelNext ==
  \/ BatchStart
  \/ SetProcessing
  \/ VerifyEmail
  \/ WriteLog
  \/ Flush
  \/ WriteFailureLog
  \/ SetCompleted
  \/ Notify
  \/ SetFailed
  \/ BullRetry
  \/ CancelBatch

SpecBatchCancel == InitBatch /\ [][BatchCancelNext]_vars

\* A result that an earlier verify of User@Example.COM stored: one MX record,
\* not blocked, both probes cut short by the per-minute limit.
WarmResult ==
  LET e == <<"User", "Example.COM">>
      r1 == [NewResult(e) EXCEPT !.domain = ToLowerCase(e[2]),
                                 !.formatValid = TRUE,
                                 !.suggestion = SuggestCorrection(e)]
      r2 == MxResult(r1, [error |-> FALSE, code |-> "none",
                          records |-> <<MxRecord("mx1", 10)>>])
      r3 == PushError([r2 EXCEPT !.smtpCheck = TRUE, !.isCatchAll = TRUE],
                      "SMTP check error: RATE_LIMIT_MINUTE")
  IN [r3 EXCEPT !.isValid = IsValid(r3)]

WarmCache ==
  verifyCache = SetEx(EmptyVerifyCache, CacheKey(WarmResult.email),
                      CacheDuration(WarmResult), WarmResult)

\* One call of either verifier, over a cache that is empty or holds the
\* result of an earlier call.
InitVerify ==
  /\ SmtpInit /\ GovInit /\ BatchIdle /\ VerifyInit /\ FnIdle /\ SubmitIdle
  /\ CallerInit("any", 1)
  /\ (ColdCache \/ WarmCache)

SpecVerify == InitVerify /\ [][VerifyNext]_vars

\* Two calls of the enhanced verifier on one address with the same options,
\* over a cache that starts empty.
InitVerifyRepeat ==
  /\ SmtpInit /\ GovInit /\ BatchIdle /\ VerifyInit /\ FnIdle /\ SubmitIdle
  /\ CallerInit("repeat", 2)
  /\ ColdCache

SpecVerifyRepeat == InitVerifyRepeat /\ [][VerifyRepeatNext]_vars

\* Nothing else runs while one of the functions of derived signals is called.
OthersIdle ==
  /\ SmtpInit /\ GovInit /\ BatchIdle /\ VerifyInit /\ SubmitIdle
  /\ CallerInit("any", 0) /\ ColdCache

\* One call of checkSpamTrapIndicators, on any sample local part and any
\* sample answer of the TXT lookup.
InitSpamTrap ==
  /\ OthersIdle
  /\ \E u \in Usernames, t \in TxtReplies :
       FnCalled([username |-> u, txt |-> t])

SpecSpamTrap == InitSpamTrap /\ [][SpamTrapNext]_vars

\* One call of suggestCorrection of either verifier, on any sample domain.
InitSuggest ==
  /\ OthersIdle
  /\ \E v \in {"enhanced", "basic"}, d \in SampleDomains :
       FnCalled([verifier |-> v, username |-> "user", domain |-> d])

SpecSuggest == InitSuggest /\ [][SuggestNext]_vars

\* One call of enrich of either verifier, on any sample address.
InitEnrich ==
  /\ OthersIdle
  /\ \E v \in {"enhanced", "basic"}, u \in EnrichUsernames, d \in EnrichDomains :
       FnCalled([enricher |-> v, username |-> u, domain |-> d])

SpecEnrich == InitEnrich /\ [][EnrichNext]_vars

\* The last steps of one call of AdvancedEmailVerifier.verify, on any
\* signals its checks may have left.
InitAdvanced ==
  /\ OthersIdle
  /\ \E r \in AdvancedResults, m \in BOOLEAN :
       FnCalled([result |-> r, checkMailbox |-> m])

SpecAdvanced == InitAdvanced /\ [][AdvancedNext]_vars

\* One row of the CSV download, for any result the bulk worker may have
\* logged.
InitCsv ==
  /\ OthersIdle
  /\ \E r \in LoggedResults : FnCalled([log |-> [result |-> r]])

SpecCsv == InitCsv /\ [][CsvNext]_vars

(***************************************************************************)
(* Claims                                                                  *)
(***************************************************************************)

Range(seq) == {seq[i] : i \in 1..Len(seq)}

IsPrefix(a, b) == Len(a) <= Len(b) /\ \A i \in 1..Len(a) : a[i] = b[i]

\* The i-th chunk the server sent carries reply code `code`.
Answered(i, code) == i <= Len(responseBuffer) /\ code \in responseBuffer[i].marks

\* The server answered 220, 250, 250 to the first three things it saw.
NormalExchange == Answered(1, "220") /\ Answered(2, "250") /\ Answered(3, "250")

\* Terminal accept of the dialogue: HELO, MAIL FROM and RCPT TO went out in
\* that order and the server answered 220, 250, 250 and 250.
TerminalAccept ==
  /\ NormalExchange
  /\ Answered(4, "250")
  /\ IsPrefix(<<"HELO", "MAIL FROM", "RCPT TO">>, sent)

\* C1: verify completes by returning a result object: whatever the cache, the
\* governor, DNS, the probe or the 10 s timer do, the call never ends by
\* throwing or rejecting, and the object it returns carries email, isValid and
\* errors.
C1_VerifyTotal ==
  /\ v_outcome # "rejected"
  /\ v_pc = "done" =>
       /\ v_outcome = "returned"
       /\ {"email", "isValid", "errors"} \subseteq DOMAIN v_ret
       /\ v_ret.email = email

\* A call that the timer's rejection sent into the catch has returned.
C1_Witness ==
  /\ verifier = "enhanced"
  /\ v_pc = "done"
  /\ h_timedOut
  /\ v_outcome = "returned"

\* C2 (as claimed): at every observation of the durable record,
\* validEmails + invalidEmails = processedEmails and processedEmails <=
\* totalEmails, so that no email is counted as processed twice.
C2_RecordCounts ==
  /\ batchJob.validEmails + batchJob.invalidEmails = batchJob.processedEmails
  /\ batchJob.processedEmails <= batchJob.totalEmails

\* C3 (as claimed): the status of the record only moves forward, queued ->
\* processing -> completed | failed, and a completed or failed record never
\* changes its status again.
StatusRank(st) ==
  CASE st = "queued" -> 0
    [] st = "processing" -> 1
    [] OTHER -> 2

C3_StatusMonotone ==
  [][/\ StatusRank(batchJob.status) <= StatusRank(batchJob.status')
     /\ batchJob.status \in {"completed", "failed"}
          => batchJob.status' = batchJob.status]_vars

\* C4 (as claimed): a probe that has returned has smtpCheck = TRUE exactly
\* when the dialogue reached terminal accept; a server that answers 220,
\* 250, 250, 250 yields smtpCheck = TRUE, and no other path does.
C4_SmtpOkIffAccept ==
  s_pc = "returned" =>
    /\ smtpCheck => TerminalAccept
    /\ (NormalExchange /\ Answered(4, "250")) => smtpCheck

\* C5 (as claimed, for a server that opens with a 220 banner): the probe
\* sends HELO, MAIL FROM, RCPT TO in this order, each at most once, MAIL FROM
\* only after the 250 to HELO, RCPT TO only after the 250 to MAIL FROM.
C5_CommandOrder ==
  Answered(1, "220") =>
    /\ IsPrefix(sent, <<"HELO", "MAIL FROM", "RCPT TO">>)
    /\ Len(sent) >= 2 => Answered(2, "250")
    /\ Len(sent) >= 3 => Answered(3, "250")

\* C6 (as claimed): when the server answers 550 or 553 after a normal 220 /
\* 250 / 250 exchange, the probe ends in reject: smtpCheck = FALSE and the
\* 'address rejected' error is on errors.
C6_RejectOn55x ==
  (/\ s_pc = "returned"
   /\ NormalExchange
   /\ Answered(4, "550") \/ Answered(4, "553"))
    => /\ smtpCheck = FALSE
       /\ "SMTP check failed: address rejected" \in Range(smtpErrors)

\* C7 (as claimed): under any interleaving of concurrent getNextIp calls for
\* one domain the check and the increment act atomically: the minute counter
\* never exceeds maxPerMinute and the hour counter never exceeds maxPerHour
\* (stated for runs in which no Redis operation fails).
C7_AtomicAcquire ==
  ~h_redisFailed =>
    /\ r_minute <= limitConfig.maxPerMinute
    /\ r_hour <= limitConfig.maxPerHour
    /\ h_okMinute <= limitConfig.maxPerMinute

\* C8: of sequential getNextIp calls for one domain with Redis answering, a
\* call that begins when fewer than maxPerMinute (and fewer than maxPerHour)
\* acquires were counted in the running window returns an IP of the pool;
\* one that begins when maxPerMinute were counted throws RATE_LIMIT_MINUTE,
\* and otherwise one that begins when maxPerHour were counted throws
\* RATE_LIMIT_HOUR. So of L + 1 calls in one window the first L return an
\* IP and the last one fails.
C8_SequentialAcquire ==
  (g_pc[1] = "idle" /\ g_ret[1] # "none" /\ ~h_redisFailed /\ ~h_expired) =>
    IF h_before.m >= limitConfig.maxPerMinute
    THEN g_ret[1] = "RATE_LIMIT_MINUTE"
    ELSE IF h_before.h >= limitConfig.maxPerHour
         THEN g_ret[1] = "RATE_LIMIT_HOUR"
         ELSE g_ret[1] \in IpAddresses

\* C8's case: the call after maxPerMinute counted acquires was refused.
C8_Witness ==
  /\ g_pc[1] = "idle"
  /\ g_ret[1] = "RATE_LIMIT_MINUTE"
  /\ h_before.m = limitConfig.maxPerMinute
  /\ h_okMinute = limitConfig.maxPerMinute
  /\ ~h_redisFailed
  /\ ~h_expired

\* C9 (as claimed): a call ended by its deadline returns the partial result:
\* the signals gathered so far (formatValid, domain, isDisposable) and the
\* errors gathered so far with a timeout tag after them.
C9_TimeoutPartialResult ==
  (h_timedOut /\ v_pc = "done") =>
    /\ {"formatValid", "domain", "isDisposable"} \subseteq DOMAIN v_ret
    /\ v_ret.formatValid = result.formatValid
    /\ v_ret.domain = result.domain
    /\ v_ret.isDisposable = result.isDisposable
    /\ IsPrefix(result.errors, v_ret.errors)
    /\ Len(v_ret.errors) = Len(result.errors) + 1

\* C10 (as claimed): once the 10 s timer has fired, verify starts no further
\* step: no rate-limit delay, SMTP probe, catch-all probe or TXT lookup.
C10_DeadlineBounds ==
  h_lateSteps \cap {"sleep", "smtp", "catchall", "spamtrap"} = {}

\* A boolean signal of a returned object as JavaScript reads it: a field the
\* object lacks is undefined, which is falsy.
Signal(r, field) == IF field \in DOMAIN r THEN r[field] ELSE FALSE

SmtpBlockedSignal(r) ==
  IF "details" \in DOMAIN r THEN r.details.smtpBlocked ELSE FALSE

\* C11: every object the pipeline's verify returns, on every return path, has
\* isValid = formatValid and hasMx and not isDisposable and (smtpCheck or
\* smtpBlocked) and not isSpamTrap; on the paths that build no new object the
\* same holds of the signals gathered in result.
C11_ValidityFormula ==
  (verifier = "enhanced" /\ v_pc = "done" /\ v_outcome = "returned") =>
    /\ v_ret.isValid =
         (/\ Signal(v_ret, "formatValid")
          /\ Signal(v_ret, "hasMx")
          /\ ~Signal(v_ret, "isDisposable")
          /\ (Signal(v_ret, "smtpCheck") \/ SmtpBlockedSignal(v_ret))
          /\ ~Signal(v_ret, "isSpamTrap"))
    /\ "fromCache" \notin DOMAIN v_ret =>
         v_ret.isValid =
           (/\ result.formatValid
            /\ result.hasMx
            /\ ~result.isDisposable
            /\ (result.smtpCheck \/ result.details.smtpBlocked)
            /\ ~result.isSpamTrap)

\* An aggregate return with a valid verdict.
C11_Witness ==
  /\ verifier = "enhanced"
  /\ v_pc = "done"
  /\ "hasMx" \in DOMAIN v_ret
  /\ v_ret.isValid

\* The role set of the role-account check.
RoleAccounts ==
  {"admin", "administrator", "webmaster", "hostmaster", "postmaster", "abuse",
   "security", "support", "info", "contact", "sales", "marketing", "help",
   "noreply", "no-reply"}

\* C12 (as claimed): with checkRoleAccount enabled, a verify that got past the
\* syntax check returns a complete result whose isRoleAccount tells whether
\* the lower-cased local part is in the role set.
C12_RoleAccount ==
  (/\ verifier = "enhanced" /\ v_pc = "done"
   /\ options.checkRoleAccount
   /\ result.formatValid
   /\ ~h_timedOut
   /\ "fromCache" \notin DOMAIN v_ret) =>
    /\ {"isRoleAccount", "formatValid", "hasMx", "smtpCheck"} \subseteq DOMAIN v_ret
    /\ v_ret.isRoleAccount = (ToLowerCase(email[1]) \in RoleAccounts)

\* How many emails of the batch verify finds valid.
CountValid == Cardinality({i \in 1..Len(emails) : emails[i] = "valid"})

\* C13 (as claimed): a batch finished with no job-level error has a record
\* with status completed, completedAt set, processedEmails = totalEmails,
\* validEmails = the number of valid emails and invalidEmails = the number of
\* the others.
C13_CompletedCounts ==
  (batchJob.status = "completed" /\ ~h_jobFault) =>
    /\ batchJob.completedAt
    /\ batchJob.processedEmails = batchJob.totalEmails
    /\ batchJob.validEmails = CountValid
    /\ batchJob.invalidEmails = Len(emails) - CountValid

\* C14 (as claimed): with no job-level error, a failure while handling one
\* email never aborts the batch, and every email handled so far is counted
\* once: the processor never enters its outer catch and never counts more
\* emails than the loop has reached.
C14_PerEmailFailure ==
  ~h_jobFault =>
    /\ b_pc \notin {"fail", "thrown", "dead"}
    /\ batchJob.status # "failed"
    /\ processed <= b_idx + 1
    /\ validCount + invalidCount = processed

\* C15 (as claimed): a worker processing a cancelled batch verifies no email
\* past the one in hand when the batch was cancelled, and finalises the
\* record as failed with error "cancelled".
C15_Cancellation ==
  (b_cancelledAt >= 0 /\ attemptsMade = 0 /\ ~h_jobFault) =>
    /\ b_idx <= b_cancelledAt + 1
    /\ batchJob.status # "completed"
    /\ b_pc = "returned" =>
         batchJob.status = "failed" /\ batchJob.error = "cancelled"

\* What a call to the cache store answers when the store is available and
\* holds nothing (getSmtpDelay aside, whose answer is only a waiting time).
EmptyStoreAnswer(op) ==
  CASE op.op = "getCachedVerificationResult" ->
         GetCached(TRUE, EmptyVerifyCache, CacheKey(email), NoEntry)
    [] op.op = "getCachedMxRecords" ->
         GetCached(TRUE, EmptyMxCache, result.domain, NoMxEntry)
    [] op.op = "getNextIp" -> GetNextIpAnswer(TRUE, 0, 0, 0)
    [] op.op = "isDomainBlocked" -> IsDomainBlockedAnswer(TRUE, "null")
    [] OTHER -> op.returned

\* C16: a call to an unavailable cache store raises nothing and answers as an
\* empty store would (a read misses, getNextIp gives the first IP of the
\* pool, isDomainBlocked gives false), an unavailable write leaves the store
\* as it was, the wait that getSmtpDelay asks for changes nothing in the
\* result, and verify returns.
C16_StoreFailsOpen ==
  [][/\ \A i \in DOMAIN h_storeOps' :
          ~h_storeOps'[i].available =>
            /\ ~h_storeOps'[i].threw
            /\ h_storeOps'[i].op # "getSmtpDelay" =>
                 h_storeOps'[i].returned = EmptyStoreAnswer(h_storeOps'[i])
            /\ h_storeOps'[i].op = "cacheVerificationResult" =>
                 verifyCache' = verifyCache
            /\ h_storeOps'[i].op = "cacheMxRecords" => mxCache' = mxCache
     /\ v_pc \in {"delay", "sleep"} => result' = result
     /\ v_outcome' # "rejected"]_vars

\* C16 witness: verify has returned a result with MX records after a cache
\* write that found the store unavailable and stored nothing.
C16_Witness ==
  /\ verifier = "enhanced"
  /\ v_pc = "done"
  /\ v_outcome = "returned"
  /\ h_storeOps =
       <<StoreOp("cacheVerificationResult", FALSE, "undefined", FALSE)>>
  /\ ~verifyCache[CacheKey(email)].present
  /\ v_ret.hasMx

\* C17: a verify whose lookup finds an entry under the address returns that
\* entry marked fromCache, having made no DNS query, no governor call, no
\* SMTP connection and no cache write; a caller's second call that finds the
\* entry its first call left returns what the first call returned.
C17_CacheHit ==
  /\ (v_pc = "done" /\ "fromCache" \in DOMAIN v_ret) =>
        /\ v_outcome = "returned"
        /\ v_ret.fromCache
        /\ v_ret = ("fromCache" :> TRUE) @@ verifyCache[CacheKey(email)].value
        /\ h_work = {}
        /\ h_prevRet.email # <<>> =>
             [f \in DOMAIN h_prevRet |-> v_ret[f]] = h_prevRet
  /\ \A i \in DOMAIN h_storeOps :
        (/\ h_storeOps[i].op = "getCachedVerificationResult"
         /\ h_storeOps[i].available
         /\ verifyCache[CacheKey(email)].present) =>
          v_pc = "done" /\ "fromCache" \in DOMAIN v_ret

\* C17 witness: the second call of a caller has returned, from the cache, the
\* valid verdict of the first.
C17_Witness ==
  /\ callsLeft = 0
  /\ v_pc = "done"
  /\ "fromCache" \in DOMAIN v_ret
  /\ h_prevRet.email # <<>>
  /\ v_ret.isValid

\* C18 (as claimed): every verification result in the cache was written with
\* a TTL of 24 h if its isValid is true and of 12 h if it is false, whichever
\* path of verify wrote it.
C18_TtlByValidity ==
  \A k \in CacheKeys :
    verifyCache[k].present =>
      verifyCache[k].ttl = IF verifyCache[k].value.isValid THEN DayTtl
                           ELSE HalfDayTtl

\* C19: only records that DNS returned are cached, for a day; an MX check that
\* finds the domain's records in the cache makes no DNS
\* query and reports hasMx = true; and when a caller's second call checks MX
\* with the records of the domain within reach in the cache, it makes no MX
\* query and sees hasMx = true as the lookup that cached them did.
C19_CachedMx ==
  /\ \A d \in MxKeys :
       mxCache[d].present => Len(mxCache[d].value) > 0 /\ mxCache[d].ttl = DayTtl
  /\ \A i \in DOMAIN h_storeOps :
       (h_storeOps[i].op = "getCachedMxRecords" /\ v_pc # "done") =>
         /\ h_storeOps[i].returned.present =>
              /\ result.hasMx
              /\ "dns" \notin h_work
              /\ Len(h_storeOps) = 1
              /\ h_mxRecords = h_storeOps[i].returned.value
         /\ (h_storeOps[i].available /\ mxCache[result.domain].present
              /\ Len(h_storeOps) = 1) =>
              h_storeOps[i].returned.present

\* C19 witness: the second call of a caller has passed its MX check on cached
\* records.
C19_Witness ==
  /\ callsLeft = 0
  /\ v_pc = "blocked"
  /\ Len(h_storeOps) = 1
  /\ h_storeOps[1].op = "getCachedMxRecords"
  /\ h_storeOps[1].returned.present
  /\ result.hasMx

\* C20 (as claimed): the probe of verify connects to the exchange whose
\* priority is the lowest among all the MX records obtained for the domain,
\* the first of them in DNS order when several share that priority.
C20_LowestOfAllRecords ==
  (h_mxDomain # "none" /\ Len(h_mxRecords) > 0) =>
    \E i \in 1..Len(h_mxRecords) :
      /\ h_mxDomain = h_mxRecords[i].exchange
      /\ \A j \in 1..Len(h_mxRecords) :
           h_mxRecords[i].priority <= h_mxRecords[j].priority
      /\ \A j \in 1..(i - 1) :
           h_mxRecords[j].priority > h_mxRecords[i].priority

\* C21 (as claimed): the alternative resolver is asked only after the primary
\* resolver timed out, with alternative DNS enabled, and never after the
\* primary resolver answered that the domain does not exist.
C21_NoRetryOnNxdomain ==
  \A i \in DOMAIN h_dnsLog :
    h_dnsLog[i].resolver = "alternative" =>
      /\ options.useAlternativeDns
      /\ i = 2
      /\ h_dnsLog[1].resolver = "primary"
      /\ h_dnsLog[1].code = "ETIMEOUT"

\* The errors that checkMxRecords pushes.
MxFailureTags ==
  {"No MX records found for domain"} \cup
    {"MX lookup failed: " \o c : c \in DnsErrors}

\* C22 (as claimed): when the MX lookup of a verify has ended with an empty
\* answer or an error, the result that verify returns has hasMx = false and
\* isValid = false and an MX failure among its errors ("No MX records found
\* for domain" for an empty answer), and the call has made no block-list
\* check, no probe and no spam-trap check.
C22_MxGate ==
  /\ (/\ verifier = "enhanced" /\ v_pc = "done" /\ options.checkMx
      /\ ~mxPending /\ "dns" \in h_work /\ h_mxRecords = <<>>) =>
       /\ v_outcome = "returned"
       /\ "hasMx" \in DOMAIN v_ret
       /\ ~v_ret.hasMx
       /\ ~v_ret.isValid
       /\ \E i \in DOMAIN v_ret.errors : v_ret.errors[i] \in MxFailureTags
       /\ h_work \subseteq {"dns", "cacheWrite"}
  /\ (/\ v_pc # "done" /\ h_dnsLog # <<>>
      /\ h_dnsLog[Len(h_dnsLog)].code = "none" /\ h_mxRecords = <<>>) =>
       /\ v_pc = "final"
       /\ result.errors[Len(result.errors)] = "No MX records found for domain"

\* C23: once isDomainBlocked has answered true, verify has smtpBlocked set,
\* makes no getNextIp call and opens no SMTP connection, for the address and
\* for the catch-all probe, and the result it returns is valid exactly when
\* the format is valid, MX records exist, and the address is neither
\* disposable nor a spam trap.
C23_BlockListGate ==
  (verifier = "enhanced" /\ result.details.smtpBlocked) =>
    /\ "acquire" \notin h_work
    /\ "smtp" \notin h_work
    /\ v_pc \notin {"delay", "sleep", "smtp", "catchall"}
    /\ ~result.smtpCheck
    /\ ~result.isCatchAll
    /\ v_pc = "done" =>
         /\ v_outcome = "returned"
         /\ v_ret = result
         /\ v_ret.isValid = (/\ v_ret.formatValid /\ v_ret.hasMx
                             /\ ~v_ret.isDisposable /\ ~v_ret.isSpamTrap)

\* C23 witness: verify has returned a valid result for a blocked domain.
C23_Witness ==
  /\ verifier = "enhanced"
  /\ v_pc = "done"
  /\ result.details.smtpBlocked
  /\ v_ret.isValid
  /\ options.checkSmtp

\* C24 (as claimed): isCatchAll is set only by a catch-all probe that ran
\* after an accepted, non-disposable address and that obtained an IP and led
\* its own dialog to the server's answer; a probe refused by the rate
\* governor leaves isCatchAll false.
C24_CatchAllOnlyOnAccept ==
  (/\ verifier = "enhanced" /\ result.isCatchAll
   /\ h_storeOps # <<>> /\ h_storeOps[1].op = "getNextIp") =>
    /\ result.smtpCheck
    /\ ~result.isDisposable
    /\ ~h_storeOps[1].threw
    /\ h_storeOps[1].returned \in IpAddresses

\* C25: for an address without "@" and with no cached entry, either verifier
\* returns formatValid = false, isValid = false and errors = <<"Invalid email
\* format">>, having made no DNS query and opened no SMTP connection.
C25_NoAtSign ==
  (/\ v_pc = "done" /\ Len(email) = 1 /\ "fromCache" \notin DOMAIN v_ret) =>
    /\ v_outcome = "returned"
    /\ "formatValid" \in DOMAIN v_ret
    /\ ~v_ret.formatValid
    /\ ~v_ret.isValid
    /\ v_ret.errors = <<"Invalid email format">>
    /\ "dns" \notin h_work
    /\ "smtp" \notin h_work
    /\ ~mxPending

\* C25 witness: the enhanced verifier has returned for an address without
\* "@" after a cache lookup that missed.
C25_Witness ==
  /\ verifier = "enhanced"
  /\ v_pc = "done"
  /\ Len(email) = 1
  /\ options.checkCache
  /\ v_ret.errors = <<"Invalid email format">>

\* C26 (as claimed): a returned result with isDisposable = true has isValid =
\* false, and the result returned for an address whose domain is on the
\* disposable list (the disposable check not switched off, no cached entry)
\* has isDisposable = true, whatever the MX lookup and the probe answer.
C26_Disposable ==
  (v_pc = "done" /\ v_outcome = "returned") =>
    /\ ("isDisposable" \in DOMAIN v_ret /\ v_ret.isDisposable) => ~v_ret.isValid
    /\ (/\ Len(email) = 2
        /\ ToLowerCase(email[2]) \in DisposableEmailDomains
        /\ verifier = "basic" \/ options.checkDisposable
        /\ "fromCache" \notin DOMAIN v_ret) =>
         /\ "isDisposable" \in DOMAIN v_ret
         /\ v_ret.isDisposable

\* C27 (as claimed): isSpamTrap is true exactly when the local part is made
\* of eight or more lower-case letters and digits with no vowel among them,
\* or the TXT records of the domain match spam, trap or honeypot; a TXT
\* lookup that fails counts as no match.
C27_SpamTrap ==
  f_pc = "returned" =>
    LET username == f_input.username
        randomLocalPart ==
          /\ Len(username) >= 8
          /\ \A i \in 1..Len(username) :
               \/ \E k \in 1..26 : LowerCaseLetters[k] = username[i]
               \/ username[i] \in DigitChars
          /\ \A i \in 1..Len(username) :
               username[i] \notin {"a", "e", "i", "o", "u"}
        txtMatches ==
          /\ ~f_input.txt.error
          /\ SuspiciousPattern(FlatRecords(f_input.txt.records))
    IN f_output.isSpamTrap = (randomLocalPart \/ txtMatches)

\* The well-known domains of a verifier's suggestCorrection.
WellKnownDomains(v) ==
  IF v = "enhanced"
    THEN {EnhancedCommonDomains[k].correctDomain :
            k \in 1..Len(EnhancedCommonDomains)}
    ELSE {BasicCommonDomains[k] : k \in 1..Len(BasicCommonDomains)}

\* C28 (as claimed): for a domain that is no key of the corrections map,
\* suggestCorrection returns the local part at a well-known domain nearest to
\* the input domain when the least Levenshtein distance to a well-known
\* domain is 1 or 2, and no suggestion when it is 0 or more than 2.
C28_NearestWithinTwo ==
  (f_pc = "returned" /\ "verifier" \in DOMAIN f_input) =>
    LET known == WellKnownDomains(f_input.verifier)
        corrections == IF f_input.verifier = "enhanced"
                         THEN EnhancedCorrections ELSE BasicCorrections
        least == CHOOSE n \in 0..20 :
                   /\ \E d \in known : LevenshteinDistance(f_input.domain, d) = n
                   /\ \A d \in known : LevenshteinDistance(f_input.domain, d) >= n
    IN Correction(corrections, f_input.domain) = <<>> =>
         IF least \in {1, 2}
           THEN /\ f_output # <<>>
                /\ f_output[1] = f_input.username
                /\ f_output[2] \in known
                /\ LevenshteinDistance(f_input.domain, f_output[2]) = least
           ELSE f_output = <<>>

\* C29: enrich runs verify once and returns verify's result with one more
\* property, enrichment, which is null exactly when the result is not valid;
\* an enrichment that is not null carries possibleName, possibleCompany,
\* isFreeProvider and domainCategory, possibleCompany being null for a free
\* provider.
C29_Enrich ==
  (f_pc = "returned" /\ "enricher" \in DOMAIN f_input) =>
    LET verification == f_output.verification
        value == f_output.value
    IN /\ f_output.verifyCalls = 1
       /\ DOMAIN value = DOMAIN verification \cup {"enrichment"}
       /\ \A k \in DOMAIN verification : value[k] = verification[k]
       /\ (value.enrichment = Null) <=> ~verification.isValid
       /\ value.enrichment # Null =>
            LET enrichment == value.enrichment[1]
            IN /\ {"possibleName", "possibleCompany", "isFreeProvider",
                   "domainCategory"} \subseteq DOMAIN enrichment
               /\ enrichment.isFreeProvider => enrichment.possibleCompany = Null

\* A valid address at a free provider has been enriched, and one elsewhere
\* got a company name.
C29_Witness ==
  /\ f_pc = "returned"
  /\ "enricher" \in DOMAIN f_input
  /\ f_output.verification.isValid
  /\ f_output.value.enrichment # Null
  /\ f_output.value.enrichment[1].isFreeProvider
  /\ f_output.value.enrichment[1].possibleCompany = Null
  /\ f_output.value.enrichment[1].possibleName.first # Null

ProbeVerdict ==
  IF smtpErrors = <<>> THEN "accept"
  ELSE IF smtpErrors[Len(smtpErrors)] = "SMTP check failed: address rejected"
    THEN "reject"
  ELSE "inconclusive"

\* C31 (as claimed): a probe that ended in accept or reject has sent QUIT as
\* its last command before the connection was closed; a probe that ended
\* inconclusively (timeout, error, unexpected close, oversize buffer, global
\* ceiling) has sent no QUIT and its socket is destroyed.
C31_QuitOnVerdict ==
  (s_pc = "returned" /\ socket # "none") =>
    IF ProbeVerdict \in {"accept", "reject"}
      THEN Len(sent) > 0 /\ sent[Len(sent)] = "QUIT"
      ELSE "QUIT" \notin Range(sent) /\ socket \in {"destroyed", "closed"}

\* The errors getNextIp throws at a limit.
RateLimitErrors == {"RATE_LIMIT_MINUTE", "RATE_LIMIT_HOUR"}

\* Caller p's call has passed the two checks of the limits.
PastChecks(p) == g_pc[p] \notin {"idle", "off", "getMinute", "getHour"}

\* One step of a counter: unchanged, one more, or dropped at the end of its
\* TTL.
CounterStep(before, after, ttl) ==
  \/ after = before
  \/ after = before + 1
  \/ after = 0 /\ ttl

\* C32: each step leaves the minute and the hour counter as they are, raises
\* one by 1, or drops one whose TTL ran out; a step of a call raises a counter
\* or moves the round-robin index only after the call passed its checks, and
\* such a call never ends with a rate-limit error: so an acquire that fails
\* with a rate-limit error has changed neither counter nor the index.
C32_CountersOnlyGrow ==
  [][/\ CounterStep(r_minute, r_minute', r_minuteTtl)
     /\ CounterStep(r_hour, r_hour', r_hourTtl)
     /\ \A p \in Callers :
          /\ (/\ g_pc'[p] # g_pc[p]
              /\ \/ r_minute' > r_minute
                 \/ r_hour' > r_hour
                 \/ r_ipIndex' # r_ipIndex) => PastChecks(p)
          /\ PastChecks(p) => g_ret'[p] \notin RateLimitErrors
          /\ (g_pc[p] = "getHour" /\ g_ret'[p] \in RateLimitErrors)
               => UNCHANGED <<r_minute, r_hour, r_ipIndex>>]_vars

\* C32's case: a call was refused at the minute limit while the counters
\* stand at what the earlier acquires of the window counted.
C32_Witness ==
  /\ g_pc[1] = "idle"
  /\ g_ret[1] = "RATE_LIMIT_MINUTE"
  /\ r_minute = limitConfig.maxPerMinute
  /\ r_hour > 0
  /\ h_okMinute = h_before.m
  /\ h_okHour = h_before.h

\* C33 (as claimed): every boolean column of every CSV row is the literal
\* true or false, whatever result the bulk worker logged.
C33_CsvBooleans ==
  (f_pc = "returned" /\ "log" \in DOMAIN f_input) =>
    /\ Len(f_output) = Len(CsvBooleanColumns)
    /\ \A i \in 1..Len(f_output) : f_output[i] \in {"true", "false"}

\* C34 (as claimed): a batch whose record says completed has as many
\* verification log rows as the record's processedEmails, also after a retry
\* of the queue item or a failed log write.
C34_RowsMatchProcessed ==
  batchJob.status = "completed" => b_logRows = batchJob.processedEmails

\* C37 (as claimed): once the record of a batch is completed, no step of the
\* worker (the notification steps are all that is left) changes the record
\* or hands the batch to the processor again.
C37_NotificationBestEffort ==
  [][batchJob.status = "completed" =>
       /\ batchJob' = batchJob
       /\ attemptsMade' = attemptsMade
       /\ b_pc' \notin {"waiting", "start"}]_vars

\* Requests of one owner to POST /bulk-verify, in any interleaving.
InitSubmit ==
  /\ SmtpInit /\ GovInit /\ BatchIdle /\ VerifyInit /\ FnIdle
  /\ CallerInit("any", 0) /\ ColdCache
  /\ SubmitInit

SpecSubmit == InitSubmit /\ [][SubmitNext]_vars

\* C35: whatever the interleaving of one business owner's bulk submissions
\* within a month, the recorded usage never exceeds the plan's limit, and it
\* is the sum of the sizes of the submissions whose usage was recorded: no
\* update is lost.
C35_UsageWithinPlan ==
  /\ usageCount <= PlanLimit
  /\ (usageCount = -1 /\ h_recorded = 0) \/ usageCount = h_recorded

\* One request of a user for a batch id, over any BatchJob collection.
InitBatchRead ==
  /\ OthersIdle
  /\ \E s \in BatchStores, b \in BatchIds, u \in Users,
        r \in {"status", "download"} :
       FnCalled([route |-> r, store |-> s, batchId |-> b, user |-> u])

SpecBatchRead == InitBatchRead /\ [][BatchReadNext]_vars

\* The request was made by a user who does not own a batch of that id.
NotOwner ==
  ~ \E r \in f_input.store :
      r.batchId = f_input.batchId /\ r.user = f_input.user

\* The record of the requested id, if there is one.
Requested == {r \in f_input.store : r.batchId = f_input.batchId}

\* C36: the two routes reveal a batch only to its owner: a request of anyone
\* else that is answered at all gets the one not-found response, whether the
\* batch exists or not, and the download answers 200 only for a completed
\* batch of the requester.
C36_OwnerOnly ==
  (f_pc = "returned" /\ "route" \in DOMAIN f_input) =>
    /\ (NotOwner /\ f_output.code # 500) => f_output = NotFound
    /\ f_output.code = 200 =>
         \E r \in Requested :
           /\ r.user = f_input.user
           /\ f_output.data[1] = r.batchId
           /\ f_input.route = "download" => r.status = "completed"

\* Someone else's batch exists, and the request is answered as if it did not.
C36_Witness ==
  /\ f_pc = "returned" /\ "route" \in DOMAIN f_input
  /\ Requested # {} /\ NotOwner
  /\ f_input.route = "download"
  /\ \E r \in Requested : r.status = "completed"
  /\ f_output = NotFound

\* One request to POST /bulk-verify and the bulk worker that processes the
\* item it adds.
InitLifecycle ==
  /\ SmtpInit /\ GovInit /\ VerifyInit /\ FnIdle
  /\ CallerInit("any", 0) /\ ColdCache
  /\ BatchUnsubmitted
  /\ sub_pc = [p \in Submitters |-> IF p = 1 THEN "idle" ELSE "off"]
  /\ sub_size = [p \in Submitters |-> IF p = 1 THEN Len(emails) ELSE 1]
  /\ sub_usage = [p \in Submitters |-> -1]
  /\ sub_resp = [p \in Submitters |-> 0]
  /\ sub_record = [p \in Submitters |-> FALSE]
  /\ sub_item = [p \in Submitters |-> FALSE]
  /\ ownerRole \in BulkRoles
  /\ usageCount \in -1..PlanLimit
  /\ h_recorded = (IF usageCount = -1 THEN 0 ELSE usageCount)

LifecycleNext ==
  \/ \E p \in Submitters :
       \/ SubmitCall(p)
       \/ FindUsage(p)
       \/ SaveRecord(p)
       \/ Enqueue(p)
       \/ UpdateUsage(p)
  \/ BatchStart
  \/ SetProcessing
  \/ VerifyEmail
  \/ WriteLog
  \/ Flush
  \/ WriteFailureLog
  \/ SetCompleted
  \/ Notify
  \/ SetFailed
  \/ BullRetry

\* The server keeps running its handlers, and the workers keep running: a
\* step of either that can be taken is taken.
SpecLifecycle ==
  /\ InitLifecycle
  /\ [][LifecycleNext]_vars
  /\ WF_vars(SubmitNext)
  /\ WF_vars(BatchNext)

\* C38: every batch that has a BatchJob record eventually reaches the status
\* completed or failed, as long as the workers keep running.
C38_ReachesTerminalStatus ==
  sub_record[1] ~> (batchJob.status \in {"completed", "failed"})

\* The probe under its scheduling: the await of getNextIp settles, and the
\* 15 s timer, once armed, fires.
SpecSmtpFair ==
  /\ InitSmtp
  /\ [][SmtpNext]_vars
  /\ WF_vars(SmtpConnect \/ SmtpConnectThrows \/ SmtpRateLimited)
  /\ WF_vars(OnGlobalTimeout)

\* C39: every probe resolves exactly once: a probe that was started ends, the
\* promise is resolved at most once, and once the probe has ended no later
\* socket or timer event changes smtpCheck or the errors.
C39_ResolvesOnce ==
  /\ [](resolveCount <= 1)
  /\ [][s_pc = "returned" =>
          /\ s_pc' = "returned"
          /\ smtpCheck' = smtpCheck
          /\ smtpErrors' = smtpErrors
          /\ resolveCount' = resolveCount]_vars
  /\ (s_pc = "acquire") ~> (s_pc = "returned")

\* The socket's timeout decided; the close and the 15 s timer came after it.
C39_Witness ==
  /\ s_pc = "returned"
  /\ resolveCount = 1
  /\ socket = "closed"
  /\ ~timerArmed
  /\ smtpErrors = <<"SMTP connection timed out">>

\* One caller of getNextIp after another, while time passes.
SpecGovTimed == InitGovSeq /\ [][GovTimedNext]_vars

\* C40: the minute counter is a fixed window: an acquire does not move the
\* expiry of a key that already has one, and the counter is reset no later
\* than the TTL after the first acquire of its window.
C40_FixedWindow ==
  /\ []((r_minute > 0 /\ r_minuteDeadline # -1) =>
          clock - h_windowStart <= MinuteTtl)
  /\ [][(r_minute > 0 /\ r_minuteDeadline # -1 /\ r_minuteDeadline' # -1) =>
          r_minuteDeadline' = r_minuteDeadline]_vars

====
